---- MODULE Spec2Model ----
(***************************************************************************)
(* Mission state machine of the gtavi game: the classes MissionSystem and  *)
(* Mission, the Player fields they read and write, the missions that       *)
(* createSampleMissions registers and the debug start of a mission.        *)
(*                                                                         *)
(* Every handler is one action.  A handler's nested calls are composed as  *)
(* functions on the record MS of the mission system's state, so that the   *)
(* action contains the whole call tree of the handler.  A TypeError thrown *)
(* by a handler aborts it at the throwing statement: the assignments made  *)
(* before it stay, the statements after it do not run.                     *)
(***************************************************************************)
EXTENDS Integers, Sequences, FiniteSets, TLC

(***************************************************************************)
(* Bounds of the model.                                                    *)
(***************************************************************************)
\* successful startMission calls in one run
MaxStarts == 2
\* a tick lasts 60 * k seconds, k in 1..MaxDelta
MaxDelta == 2

DeltaTimes == {60 * k : k \in 1..MaxDelta}

(***************************************************************************)
(* The missions: the missionData objects handed to createMission.          *)
(***************************************************************************)
Null == "null"

\* delivery is the first mission of createSampleMissions; escort is a mission
\* whose data uses what the sample missions leave unused: an optional
\* objective, a survive objective, a destination named only by its
\* description, and an onComplete callback (which only logs)
Missions == {"delivery", "escort"}

\* horizontal world coordinates <<x, z>> the player may be at in a frame:
\* the spawn point and the start and end locations of the missions
PlayerPositions ==
    {<<0, 0>>, <<30, 30>>, <<-30, -30>>, <<20, -20>>, <<10, 10>>}

\* an objective as written in missionData; optional is TRUE only for the
\* literal `optional: true`, mentionsReach is whether the description
\* contains 'reach' or 'go to'; duration is the field the survive condition
\* reads and itemId the one the collect condition reads (0 or Null when
\* absent), location and distance those of the escape condition
Objective(id, type, optional, mentionsReach, duration, itemId) ==
    [id |-> id, type |-> type, optional |-> optional,
     mentionsReach |-> mentionsReach, duration |-> duration,
     itemId |-> itemId, location |-> Null, distance |-> 0]

MissionData(m) ==
    CASE m = "delivery" ->
           [startLocation |-> <<30, 30>>, hasEnd |-> TRUE,
            endLocation |-> <<-30, -30>>,
            objectives |-> <<Objective("obj_pickup", "pickup", FALSE, FALSE, 0, Null),
                             Objective("obj_deliver", "destination", FALSE, FALSE, 0, Null)>>,
            timeLimit |-> 180,
            rewards |-> [money |-> 500, items |-> {"item_1"}, reduceWantedLevel |-> 0],
            requireVehicle |-> FALSE, hasOnComplete |-> FALSE]
      [] m = "escort" ->
           [startLocation |-> <<20, -20>>, hasEnd |-> TRUE,
            endLocation |-> <<10, 10>>,
            objectives |-> <<Objective("obj_hold", "survive", FALSE, FALSE, 60, Null),
                             Objective("obj_bonus", "kill", TRUE, FALSE, 0, Null),
                             Objective("obj_safehouse", "travel", FALSE, TRUE, 0, Null)>>,
            timeLimit |-> 120,
            rewards |-> [money |-> 250, items |-> {}, reduceWantedLevel |-> 0],
            requireVehicle |-> FALSE, hasOnComplete |-> TRUE]
      [] m = "vigil" ->
           [startLocation |-> <<50, 50>>, hasEnd |-> FALSE,
            endLocation |-> Null,
            objectives |-> <<Objective("obj_wait", "survive", FALSE, FALSE, 60, Null)>>,
            timeLimit |-> 0,
            rewards |-> [money |-> 100, items |-> {}, reduceWantedLevel |-> 0],
            requireVehicle |-> FALSE, hasOnComplete |-> FALSE]

Objectives(m) == MissionData(m).objectives

\* the values of controls.actions.interact enumerated for a frame with the
\* player at p: the key is read only within 3 units of a start location
InteractAt(p) ==
    IF \E m \in Missions : MissionData(m).startLocation = p
    THEN BOOLEAN ELSE {FALSE}

IdsOf(m) == {Objectives(m)[i].id : i \in DOMAIN Objectives(m)}

ObjectiveIds == UNION {IdsOf(m) : m \in Missions}

\* ids passed to completeObjective: every objective id and one unknown id
IdInputs == ObjectiveIds \cup {"obj_unknown"}

(***************************************************************************)
(* State.                                                                  *)
(***************************************************************************)
VARIABLES
    status,             \* Mission.status
    activeMission,      \* MissionSystem.activeMission
    completedMissions,  \* MissionSystem.completedMissions
    objCompleted,       \* objective.completed of every objective
    elapsedTime,        \* Mission.elapsedTime
    checkpoints,        \* Mission.checkpoints
    missionMarkers,     \* MissionSystem.missionMarkers (their missions)
    awarded,            \* number of reward dispatches per mission
    failReason,         \* reason last handed to showMissionFailed, per mission
    money,              \* player.stats.money
    wanted,             \* player.stats.wanted
    weapons,            \* ids in player.inventory.weapons
    inventoryItems,     \* ids in player.inventory.items
    health,             \* player.stats.health
    isInVehicle,        \* player.isInVehicle
    currentVehicle,     \* player.currentVehicle
    visible,            \* player.group.visible
    bodyAwake,          \* whether player.body is awake
    controlMode,        \* player.controls.controlMode
    position,           \* player.position
    stamina,            \* player.stats.stamina
    velocity,           \* horizontal length of player.velocity, in tenths
    velocityY,          \* player.velocity.y
    bodyVelocityY,      \* player.body.velocity.y
    isGrounded,         \* player.isGrounded
    isJumping,          \* player.isJumping
    keysDown,           \* codes that are true in player.controls.keys
    mouseButtons,       \* buttons that are true in player.controls.mouseButtons
    actions,            \* names that are true in player.controls.actions
    player2,            \* the same fields of a second Player object
    vehicles,           \* state, controls and pose of every Vehicle
    paused,             \* gameState.paused
    frameSteps,         \* the updates the last animate() ran, in their order
    startCount,         \* successful startMission calls so far
    outcome             \* what the last mission call returned or threw

missionVars == <<status, activeMission, completedMissions, objCompleted,
                 elapsedTime, checkpoints, missionMarkers, awarded, failReason,
                 money, wanted, weapons, startCount>>
\* read by checkMissionConditions, written by no mission operation
playerVars == <<inventoryItems, health, isInVehicle>>
\* the characters and vehicles, which no mission operation writes either
controlsVars == <<keysDown, mouseButtons, actions>>
worldVars == <<playerVars, currentVehicle, visible, bodyAwake, controlMode,
               position, stamina, velocity, velocityY, bodyVelocityY,
               isGrounded, isJumping, controlsVars, player2, vehicles>>
\* the game loop, which neither a mission nor a character operation writes
loopVars == <<paused, frameSteps>>
vars == <<missionVars, worldVars, loopVars, outcome>>

\* the state the mission system's methods read and write, as one record
MS == [status |-> status, activeMission |-> activeMission,
       completedMissions |-> completedMissions, objCompleted |-> objCompleted,
       elapsedTime |-> elapsedTime, checkpoints |-> checkpoints,
       missionMarkers |-> missionMarkers, awarded |-> awarded,
       failReason |-> failReason, money |-> money, wanted |-> wanted,
       weapons |-> weapons, startCount |-> startCount]

Commit(s) ==
    /\ status' = s.status
    /\ activeMission' = s.activeMission
    /\ completedMissions' = s.completedMissions
    /\ objCompleted' = s.objCompleted
    /\ elapsedTime' = s.elapsedTime
    /\ checkpoints' = s.checkpoints
    /\ missionMarkers' = s.missionMarkers
    /\ awarded' = s.awarded
    /\ failReason' = s.failReason
    /\ money' = s.money
    /\ wanted' = s.wanted
    /\ weapons' = s.weapons
    /\ startCount' = s.startCount

\* a call that returned undefined, a call that returned a boolean, and a
\* call that ended with an uncaught TypeError
Undefined == [op |-> "any", ret |-> "undefined"]
Returned(op, b) == [op |-> op, ret |-> IF b THEN "true" ELSE "false"]
Threw(op) == [op |-> op, ret |-> "TypeError"]

Min(a, b) == IF a < b THEN a ELSE b
Max(a, b) == IF a > b THEN a ELSE b

\* F applied to the value of v, with v evaluated once: the sequencing of two
\* statements, the second reading what the first has written
Bind(v, F(_)) == CHOOSE y \in {F(x) : x \in {v}} : TRUE

(***************************************************************************)
(* Mission: isComplete, initialize, completeObjective.                     *)
(***************************************************************************)
\* a faulty every: the optional flag is not consulted
EveryCompleted(objs, done, i) == \A k \in i..Len(objs) : done[k]

\* Array.prototype.every over the objectives, left to right from index i
RECURSIVE Every(_, _, _)
Every(objs, done, i) ==
    IF i > Len(objs) THEN TRUE
    ELSE IF done[i] \/ objs[i].optional = TRUE THEN Every(objs, done, i + 1)
    ELSE FALSE

IsComplete(s, m) == Every(Objectives(m), s.objCompleted[m], 1)

\* Array.prototype.find: the least index satisfying P, 0 when there is none
Find(objs, P(_)) ==
    IF \E i \in DOMAIN objs : P(objs[i])
    THEN CHOOSE i \in DOMAIN objs : P(objs[i]) /\ \A j \in 1..(i - 1) : ~P(objs[j])
    ELSE 0

\* a checkpoint as createCheckpoint makes it; calls counts the invocations
\* of its triggerCallback
Checkpoint(pos) ==
    [position |-> pos, radius |-> 2, active |-> TRUE, triggered |-> FALSE,
     calls |-> 0]

CreateCheckpoint(s, m, pos) ==
    [s EXCEPT !.checkpoints[m] = Append(@, Checkpoint(pos))]

\* Player.updateWantedLevel
UpdateWantedLevel(s, change) ==
    [s EXCEPT !.wanted = Max(0, Min(5, @ + change))]

\* Player.addMoney
AddMoney(s, amount) == [s EXCEPT !.money = @ + amount]

\* Player.collectItem on each reward item: the rewards are weapons, which
\* addWeapon adds unless a weapon of that id is held (its ammunition is not
\* modelled); inventory.items is empty, so the inventory is never full
CollectItems(s, items) == [s EXCEPT !.weapons = @ \cup items]

AwardMissionRewards(s, m) ==
    Bind(IF MissionData(m).rewards.money # 0
         THEN AddMoney(s, MissionData(m).rewards.money) ELSE s, LAMBDA s1 :
    Bind(CollectItems(s1, MissionData(m).rewards.items), LAMBDA s2 :
    Bind(IF MissionData(m).rewards.reduceWantedLevel # 0
         THEN UpdateWantedLevel(s2, -MissionData(m).rewards.reduceWantedLevel)
         ELSE s2, LAMBDA s3 :
    [s3 EXCEPT !.awarded[m] = @ + 1])))

RemoveMissionMarker(s, m) ==
    [s EXCEPT !.missionMarkers = SelectSeq(@, LAMBDA x : x # m)]

CompleteMissionF(s) ==
    IF s.activeMission = Null THEN s
    ELSE Bind([s EXCEPT !.status[s.activeMission] = "completed"], LAMBDA s1 :
         Bind(AwardMissionRewards(s1, s1.activeMission), LAMBDA s2 :
         Bind([s2 EXCEPT !.completedMissions = Append(@, s2.activeMission)], LAMBDA s3 :
         Bind(RemoveMissionMarker(s3, s3.activeMission), LAMBDA s4 :
         [s4 EXCEPT !.activeMission = Null]))))

FailMissionF(s, reason) ==
    IF s.activeMission = Null THEN s
    ELSE [s EXCEPT !.status[s.activeMission] = "failed",
                   !.failReason[s.activeMission] = reason,
                   !.activeMission = Null]

\* a faulty Mission.completeObjective: the `if (objective.completed)` return
\* is missing
MissionCompleteObjectiveAgain(s, m, id) ==
    Bind(Find(Objectives(m), LAMBDA o : o.id = id), LAMBDA i :
    IF i = 0 THEN [s |-> s, ret |-> FALSE]
    ELSE Bind([s EXCEPT !.objCompleted[m][i] = TRUE], LAMBDA s1 :
         IF IsComplete(s1, m) /\ s1.status[m] = "active"
            /\ ~MissionData(m).hasOnComplete
         THEN [s |-> CompleteMissionF(s1), ret |-> TRUE]
         ELSE [s |-> s1, ret |-> TRUE]))

\* Mission.completeObjective: <<state afterwards, returned value>>
MissionCompleteObjectiveF(s, m, id) ==
    Bind(Find(Objectives(m), LAMBDA o : o.id = id), LAMBDA i :
    IF i = 0 THEN [s |-> s, ret |-> FALSE]
    ELSE IF s.objCompleted[m][i] THEN [s |-> s, ret |-> FALSE]
    ELSE Bind([s EXCEPT !.objCompleted[m][i] = TRUE], LAMBDA s1 :
         IF IsComplete(s1, m) /\ s1.status[m] = "active"
         THEN IF MissionData(m).hasOnComplete
              THEN [s |-> s1, ret |-> TRUE]
              ELSE [s |-> CompleteMissionF(s1), ret |-> TRUE]
         ELSE [s |-> s1, ret |-> TRUE]))

\* a faulty initialize: elapsedTime and the objectives keep their old values
InitializeKeeping(s, m) ==
    IF MissionData(m).hasEnd
    THEN CreateCheckpoint(s, m, MissionData(m).endLocation)
    ELSE s

\* Mission.initialize(missionSystem), with the start of Mission.start
Initialize(s, m) ==
    Bind([s EXCEPT !.elapsedTime[m] = 0,
                   !.objCompleted[m] = [i \in DOMAIN Objectives(m) |-> FALSE]],
         LAMBDA s1 :
    \* the onStart callbacks only log and set timers
    IF MissionData(m).hasEnd
    THEN CreateCheckpoint(s1, m, MissionData(m).endLocation)
    ELSE s1)

\* a faulty startMission: the `if (this.activeMission)` return is missing
StartMissionUnguarded(s, m) ==
    Bind([s EXCEPT !.activeMission = m, !.status[m] = "active",
                   !.startCount = @ + 1], LAMBDA s1 :
         [s |-> Initialize(s1, m), ret |-> TRUE])

\* a faulty startMission: the `if (this.activeMission)` return comes after
\* mission.initialize()
StartMissionLateGuard(s, m) ==
    IF s.activeMission # Null THEN [s |-> Initialize(s, m), ret |-> FALSE]
    ELSE Bind([s EXCEPT !.activeMission = m, !.status[m] = "active",
                        !.startCount = @ + 1], LAMBDA s1 :
         [s |-> Initialize(s1, m), ret |-> TRUE])

\* MissionSystem.startMission: <<state afterwards, returned value>>
StartMissionF(s, m) ==
    IF s.activeMission # Null THEN [s |-> s, ret |-> FALSE]
    ELSE Bind([s EXCEPT !.activeMission = m, !.status[m] = "active",
                        !.startCount = @ + 1], LAMBDA s1 :
         [s |-> Initialize(s1, m), ret |-> TRUE])

\* MissionSystem.completeObjective: <<state afterwards, whether it threw>>
CompleteObjectiveF(s, id) ==
    IF s.activeMission = Null THEN [s |-> s, threw |-> FALSE]
    ELSE Bind(MissionCompleteObjectiveF(s, s.activeMission, id), LAMBDA r :
         IF ~r.ret THEN [s |-> r.s, threw |-> FALSE]
         \* this.activeMission.isComplete() reads a property of null
         ELSE IF r.s.activeMission = Null THEN [s |-> r.s, threw |-> TRUE]
         ELSE IF IsComplete(r.s, r.s.activeMission)
         THEN [s |-> CompleteMissionF(r.s), threw |-> FALSE]
         ELSE [s |-> r.s, threw |-> FALSE])

(***************************************************************************)
(* Mission.update and Mission.checkMissionConditions.                      *)
(***************************************************************************)
\* the player as the mission system reads it in a frame: player.position is
\* what the physics step has made it, the other fields are the player's
Player(p) == [position |-> p, health |-> health,
              isInVehicle |-> isInVehicle, items |-> inventoryItems]

\* squared horizontal distance, for Vector3.distanceTo comparisons
DistSq(p, q) == (p[1] - q[1]) * (p[1] - q[1]) + (p[2] - q[2]) * (p[2] - q[2])

\* the automatic condition of an incomplete objective, by its type
AutoCondition(s, m, o, pl) ==
    CASE o.type = "collect" -> o.itemId # Null /\ o.itemId \in pl.items
      [] o.type = "escape" ->
           /\ o.location # Null /\ o.distance # 0
           /\ DistSq(pl.position, o.location) >= o.distance * o.distance
      [] o.type = "survive" ->
           o.duration # 0 /\ s.elapsedTime[m] >= o.duration
      [] OTHER -> FALSE

\* the forEach over the objectives, from index i
RECURSIVE CheckObjectives(_, _, _, _)
CheckObjectives(s, m, i, pl) ==
    IF i > Len(Objectives(m)) THEN s
    ELSE Bind(IF ~s.objCompleted[m][i] /\ AutoCondition(s, m, Objectives(m)[i], pl)
              THEN MissionCompleteObjectiveF(s, m, Objectives(m)[i].id).s
              ELSE s,
              LAMBDA s1 : CheckObjectives(s1, m, i + 1, pl))

CheckMissionConditions(s, m, pl) ==
    Bind(CheckObjectives(s, m, 1, pl), LAMBDA s1 :
    Bind(IF pl.health <= 0 THEN FailMissionF(s1, "You died") ELSE s1, LAMBDA s2 :
    IF MissionData(m).requireVehicle /\ ~pl.isInVehicle
    THEN FailMissionF(s2, "You left the vehicle")
    ELSE s2))

MissionUpdate(s, m, dt, pl) ==
    IF s.status[m] # "active" THEN s
    ELSE IF MissionData(m).timeLimit > 0
    THEN Bind([s EXCEPT !.elapsedTime[m] = @ + dt], LAMBDA s1 :
         IF s1.elapsedTime[m] >= MissionData(m).timeLimit
         THEN FailMissionF(s1, "Time expired")
         ELSE CheckMissionConditions(s1, m, pl))
    ELSE CheckMissionConditions(s, m, pl)

(***************************************************************************)
(* Checkpoints.                                                            *)
(***************************************************************************)
IsPlayerInCheckpoint(cp, pl) ==
    IF ~cp.active \/ cp.triggered THEN FALSE
    ELSE DistSq(pl.position, cp.position) <= cp.radius * cp.radius

\* the objective the end-location callback completes: the first whose type is
\* 'destination' or whose description contains 'reach' or 'go to' (0: none)
Destination(m) ==
    Find(Objectives(m), LAMBDA o : o.type = "destination" \/ o.mentionsReach)

\* a faulty end-location callback: the `if (this.isComplete())` completion
\* is missing
EndCallbackObjectiveOnly(s, m) ==
    IF Destination(m) # 0
    THEN MissionCompleteObjectiveF(s, m, Objectives(m)[Destination(m)].id).s
    ELSE s

\* the callback initialize attaches to the end-location checkpoint
EndCallback(s, m) ==
    Bind(Destination(m), LAMBDA d :
    Bind(IF d # 0 THEN MissionCompleteObjectiveF(s, m, Objectives(m)[d].id).s
         ELSE s, LAMBDA s1 :
    IF IsComplete(s1, m) THEN CompleteMissionF(s1) ELSE s1))

\* a faulty triggerCheckpoint: the `checkpoint.triggered` return is missing
TriggerCheckpointAgain(s, m, i) ==
    Bind([s EXCEPT !.checkpoints[m][i].triggered = TRUE,
                   !.checkpoints[m][i].calls = @ + 1], LAMBDA s1 :
         EndCallback(s1, m))

\* MissionSystem.triggerCheckpoint on the i-th checkpoint of mission m
TriggerCheckpointF(s, m, i) ==
    IF ~s.checkpoints[m][i].active \/ s.checkpoints[m][i].triggered THEN s
    ELSE Bind([s EXCEPT !.checkpoints[m][i].triggered = TRUE,
                        !.checkpoints[m][i].calls = @ + 1], LAMBDA s1 :
         EndCallback(s1, m))

\* the forEach over the mission's checkpoints, from index i
RECURSIVE CheckCheckpoints(_, _, _, _)
CheckCheckpoints(s, m, i, pl) ==
    IF i > Len(s.checkpoints[m]) THEN s
    ELSE Bind(IF IsPlayerInCheckpoint(s.checkpoints[m][i], pl)
              THEN TriggerCheckpointF(s, m, i) ELSE s,
              LAMBDA s1 : CheckCheckpoints(s1, m, i + 1, pl))

(***************************************************************************)
(* MissionSystem.checkMissionTriggers and MissionSystem.update.            *)
(***************************************************************************)
\* the forEach over the markers present when the loop starts, from index i
RECURSIVE CheckMarkers(_, _, _, _, _)
CheckMarkers(s, markers, i, pl, interact) ==
    IF i > Len(markers) THEN s
    ELSE Bind(IF s.status[markers[i]] = "completed" THEN s
              ELSE IF DistSq(pl.position,
                             MissionData(markers[i]).startLocation) < 9
                      /\ interact
              THEN StartMissionF(s, markers[i]).s
              ELSE s,
              LAMBDA s1 : CheckMarkers(s1, markers, i + 1, pl, interact))

CheckMissionTriggers(s, pl, interact) ==
    CheckMarkers(s, s.missionMarkers, 1, pl, interact)

\* MissionSystem.update: <<state afterwards, whether it threw>>
UpdateF(s, dt, pl, interact) ==
    IF s.activeMission = Null
    THEN [s |-> CheckMissionTriggers(s, pl, interact), threw |-> FALSE]
    ELSE Bind(MissionUpdate(s, s.activeMission, dt, pl), LAMBDA s1 :
         IF s1.activeMission = Null
         \* this.activeMission.checkpoints reads a property of null
         THEN [s |-> s1, threw |-> TRUE]
         ELSE Bind(CheckCheckpoints(s1, s1.activeMission, 1, pl), LAMBDA s2 :
              [s |-> CheckMissionTriggers(s2, pl, interact), threw |-> FALSE]))

(***************************************************************************)
(* The characters and the vehicles: the classes Player and Vehicle.        *)
(***************************************************************************)
Players == {"player", "player2"}
Vehicles == {"car"}
MaxHealth == 100
MaxStamina == 100
\* player.walkSpeed and player.runSpeed, in units per second
WalkSpeed == 5
RunSpeed == 9
JumpForce == 7

\* a body of the physics world, by its name here and by what the player
\* reads of its userData: the type and the vehicle
Body(name, type, vehicle) == [name |-> name, type |-> type, vehicle |-> vehicle]
\* no body: a ray that hit nothing, a step without a contact
NoBody == Body("none", Null, Null)

\* the body that Physics.createGround adds to the world; no userData is set
CreateGround == Body("ground", Null, Null)

\* a faulty addObject: the userData of the body is kept
AddObjectKeeping(body) ==
    body

\* Physics.addObject(mesh, body): body.userData = { mesh }
AddObject(body) ==
    [body EXCEPT !.type = Null, !.vehicle = Null]

\* the chassis body as Vehicle.createVehiclePhysics leaves it: the userData
\* with type 'vehicle' is assigned, then the body is handed to addObject
ChassisBody(v) == AddObject(Body("chassis", "vehicle", v))

\* a body whose creator has set userData = { type: 'ground' }
Platform == Body("platform", "ground", Null)

\* what a frame on foot reads: whether a movement key is down, the sprint,
\* jump and enterVehicle actions, and the body hit by the rays of
\* checkForNearbyVehicles
FootKeys == [moving : BOOLEAN, sprint : BOOLEAN, jump : {FALSE},
             enterVehicle : {FALSE}, rayHit : {NoBody}]
Standing == [moving |-> FALSE, sprint |-> FALSE, jump |-> FALSE,
             enterVehicle |-> FALSE, rayHit |-> NoBody]

\* where the physics step can have put a vehicle
Poses == {"parked", "moved"}
\* Vector3 values a player's position is set to: the spawn point, the point
\* restartGame uses, the driverPosition of a vehicle (an offset in the
\* vehicle's frame) and the first exit point of a vehicle in world space
Spawn == <<"world", "0,2,0">>
RestartPosition == <<"world", "10,2,10">>
DriverPosition == <<"vehicle frame", "0,0.8,0.2">>
GetExitPosition(veh) == <<"exit point", veh.pose>>
\* Vehicle.group.position, which Physics.update copies from the chassis body
VehicleGroupPosition(veh) == <<"vehicle group", veh.pose>>

\* the horizontal world coordinates <<x, z>> of the car in its poses: where
\* the game creates it and the end location of the delivery
PoseCoordinates(pose) == IF pose = "parked" THEN <<20, 20>> ELSE <<-30, -30>>

\* the horizontal coordinates, to the unit, that Vector3.distanceTo reads off
\* a value of player.position; the exit point is taken at the car
MissionCoordinates(pos) ==
    CASE pos = Spawn -> <<0, 0>>
      [] pos = RestartPosition -> <<10, 10>>
      [] pos = DriverPosition -> <<0, 0>>
      [] OTHER -> PoseCoordinates(pos[2])

\* Controls.getVehicleControls(): throttle and brake are 0 or 1, steering
\* is -1, 0 or 1 from the keys, handbrake is the state of a key
DriveControls == [throttle : {0, 1}, brake : {0, 1}, steering : {-1, 0, 1},
                  handbrake : BOOLEAN]
\* the controls of a driver who goes straight and keeps off the handbrake,
\* with throttle or brake or neither
VehicleControls == {c \in DriveControls : /\ c.steering = 0 /\ ~c.handbrake
                                          /\ c.throttle + c.brake <= 1}

\* vehicle.maxForce, vehicle.maxBrake and options.maxSpeed of a vehicle with
\* the default options, and vehicle.steeringClamp in thousandths
MaxForce == 8000
MaxBrake == 40
MaxSpeed == 150
SteeringClamp == 500
\* the wheels as createVehicle adds them: front left and right, rear left
\* and right
FrontWheels == {0, 1}
RearWheels == {2, 3}
\* speeds in km/h that Vehicle.update can read off the chassis body
Speeds == {0, 30, 150, 300}
DamageAmounts == {50, 100}

\* the game's player and the second Player object, and the vehicles, as one
\* record for the methods below to read and write
W == [chars |-> [c \in Players |->
                   IF c = "player"
                   THEN [health |-> health, isInVehicle |-> isInVehicle,
                         currentVehicle |-> currentVehicle, visible |-> visible,
                         bodyAwake |-> bodyAwake, controlMode |-> controlMode,
                         position |-> position, stamina |-> stamina,
                         velocity |-> velocity, velocityY |-> velocityY,
                         bodyVelocityY |-> bodyVelocityY,
                         isGrounded |-> isGrounded, isJumping |-> isJumping,
                         keys |-> keysDown, mouseButtons |-> mouseButtons,
                         actions |-> actions]
                   ELSE player2],
      vehicles |-> vehicles]

CommitW(w) ==
    /\ health' = w.chars["player"].health
    /\ isInVehicle' = w.chars["player"].isInVehicle
    /\ currentVehicle' = w.chars["player"].currentVehicle
    /\ visible' = w.chars["player"].visible
    /\ bodyAwake' = w.chars["player"].bodyAwake
    /\ controlMode' = w.chars["player"].controlMode
    /\ position' = w.chars["player"].position
    /\ stamina' = w.chars["player"].stamina
    /\ velocity' = w.chars["player"].velocity
    /\ velocityY' = w.chars["player"].velocityY
    /\ bodyVelocityY' = w.chars["player"].bodyVelocityY
    /\ isGrounded' = w.chars["player"].isGrounded
    /\ isJumping' = w.chars["player"].isJumping
    /\ keysDown' = w.chars["player"].keys
    /\ mouseButtons' = w.chars["player"].mouseButtons
    /\ actions' = w.chars["player"].actions
    /\ player2' = w.chars["player2"]
    /\ vehicles' = w.vehicles

\* a Player as its constructor leaves it
NewPlayer == [health |-> MaxHealth, isInVehicle |-> FALSE, currentVehicle |-> Null,
              visible |-> TRUE, bodyAwake |-> TRUE, controlMode |-> "character",
              position |-> Spawn, stamina |-> MaxStamina, velocity |-> 0,
              velocityY |-> 0, bodyVelocityY |-> 0,
              isGrounded |-> FALSE, isJumping |-> FALSE,
              keys |-> {}, mouseButtons |-> {}, actions |-> {}]
\* a Vehicle as its constructor leaves it; roughness and metalness are
\* those of the body material, in tenths
NewVehicle == [health |-> 100, fuel |-> 100, engineOn |-> FALSE,
               driver |-> Null, throttle |-> 0, pose |-> "parked",
               damaged |-> FALSE, roughness |-> 3, metalness |-> 7,
               speed |-> 0, handbrakeActive |-> FALSE,
               wheels |-> [i \in FrontWheels \cup RearWheels |->
                             [steering |-> 0, engineForce |-> 0, brake |-> 0]]]

\* Vehicle.startEngine()
StartEngineF(w, v) ==
    IF ~w.vehicles[v].engineOn THEN [w EXCEPT !.vehicles[v].engineOn = TRUE] ELSE w

\* Vehicle.stopEngine()
StopEngineF(w, v) ==
    IF w.vehicles[v].engineOn
    THEN [w EXCEPT !.vehicles[v].engineOn = FALSE, !.vehicles[v].throttle = 0,
                   !.vehicles[v].wheels =
                       [i \in DOMAIN @ |-> [@[i] EXCEPT !.engineForce = 0,
                                                        !.brake = 10]]]
    ELSE w

\* a faulty steering value: the speed factor has no floor
SteeringValueNoFloor(veh, steering) ==
    (steering * SteeringClamp * (1000 - (veh.speed * 1000) \div MaxSpeed)) \div 1000

\* the steering value of applyControls, in thousandths: the steering input
\* times the clamp times max(0.5, 1 - speed / maxSpeed)
SteeringValue(veh, steering) ==
    (steering * SteeringClamp
        * Max(500, 1000 - (veh.speed * 1000) \div MaxSpeed)) \div 1000

\* a faulty applyControls: the engine force goes to all four wheels
ApplyControlsAllWheels(w, v, controls) ==
    Bind(IF ~w.vehicles[v].engineOn /\ (controls.throttle > 0 \/ controls.brake > 0)
         THEN StartEngineF(w, v) ELSE w, LAMBDA w1 :
    [w1 EXCEPT !.vehicles[v].throttle = controls.throttle,
               !.vehicles[v].handbrakeActive = controls.handbrake,
               !.vehicles[v].wheels = [i \in DOMAIN @ |->
                   [steering |-> IF i \in FrontWheels
                                 THEN SteeringValue(w1.vehicles[v], controls.steering)
                                 ELSE @[i].steering,
                    engineForce |-> controls.throttle * MaxForce,
                    brake |-> IF controls.handbrake /\ i \in RearWheels
                              THEN MaxBrake * 2
                              ELSE controls.brake * MaxBrake]]])

\* Vehicle.applyControls(controls): the steering goes to wheels 0 and 1,
\* the engine force to wheels 2 and 3, the brake to all wheels and then
\* the handbrake to wheels 2 and 3
ApplyControlsF(w, v, controls) ==
    Bind(IF ~w.vehicles[v].engineOn /\ (controls.throttle > 0 \/ controls.brake > 0)
         THEN StartEngineF(w, v) ELSE w, LAMBDA w1 :
    [w1 EXCEPT !.vehicles[v].throttle = controls.throttle,
               !.vehicles[v].handbrakeActive = controls.handbrake,
               !.vehicles[v].wheels = [i \in DOMAIN @ |->
                   [steering |-> IF i \in FrontWheels
                                 THEN SteeringValue(w1.vehicles[v], controls.steering)
                                 ELSE @[i].steering,
                    engineForce |-> IF i \in RearWheels
                                    THEN controls.throttle * MaxForce
                                    ELSE @[i].engineForce,
                    brake |-> IF controls.handbrake /\ i \in RearWheels
                              THEN MaxBrake * 2
                              ELSE controls.brake * MaxBrake]]])

\* a faulty setDriver: the engine is not started
SetDriverEngineOff(w, v, c) ==
    [w EXCEPT !.vehicles[v].driver = c]

\* Vehicle.setDriver(driver)
SetDriverF(w, v, c) ==
    StartEngineF([w EXCEPT !.vehicles[v].driver = c], v)

\* a faulty removeDriver: the engine keeps running
RemoveDriverEngineOn(w, v) ==
    [w EXCEPT !.vehicles[v].driver = Null]

\* Vehicle.removeDriver()
RemoveDriverF(w, v) ==
    StopEngineF([w EXCEPT !.vehicles[v].driver = Null], v)

\* Vehicle.addFuel(amount)
AddFuelF(w, v, amount) ==
    [w EXCEPT !.vehicles[v].fuel = Min(100, @ + amount)]

\* a faulty update: the fuel is not clamped at 0
VehicleUpdateUnclamped(w, v, dt, speed) ==
    IF w.vehicles[v].engineOn
    THEN [w EXCEPT !.vehicles[v].speed = speed,
                   !.vehicles[v].fuel =
                       @ - ((dt + w.vehicles[v].throttle * 5 * dt) \div 100)]
    ELSE [w EXCEPT !.vehicles[v].speed = speed]

\* Vehicle.update(deltaTime): the fuel, in percent, goes down by 0.01 per
\* second with the engine on and by 0.05 more at full throttle; speed is
\* the speed of the chassis body in km/h, which is stored in state.speed
VehicleUpdateF(w, v, dt, speed) ==
    Bind([w EXCEPT !.vehicles[v].speed = speed], LAMBDA w0 :
    IF w0.vehicles[v].engineOn
    THEN Bind([w0 EXCEPT !.vehicles[v].fuel =
                   Max(0, @ - ((dt + w0.vehicles[v].throttle * 5 * dt) \div 100))],
              LAMBDA w1 :
         IF w1.vehicles[v].fuel <= 0 /\ w1.vehicles[v].engineOn
         THEN StopEngineF(w1, v) ELSE w1)
    ELSE w0)

\* the key of every action that Controls.updateActionsFromKeys reads in
\* character mode, the mouse button of those it reads off the mouse, and the
\* key of every action it reads in vehicle mode
CharacterBindings ==
    [moveForward |-> "KeyW", moveBackward |-> "KeyS", moveLeft |-> "KeyA",
     moveRight |-> "KeyD", jump |-> "Space", sprint |-> "ShiftLeft",
     crouch |-> "ControlLeft", enterVehicle |-> "KeyF", interact |-> "KeyE",
     reload |-> "KeyR", switchWeapon |-> "Tab"]
MouseBindings == [shoot |-> 0, aim |-> 2]
VehicleBindings ==
    [moveForward |-> "KeyW", moveBackward |-> "KeyS", moveLeft |-> "KeyA",
     moveRight |-> "KeyD", handbrake |-> "Space", exitVehicle |-> "KeyF",
     horn |-> "KeyH", headlights |-> "KeyL", radio |-> "KeyR"]

\* the actions that updateActionsFromKeys assigns in a mode
WrittenActions(mode) ==
    {"enter"} \cup
    (IF mode = "character"
     THEN DOMAIN CharacterBindings \cup DOMAIN MouseBindings
     ELSE IF mode = "vehicle" THEN DOMAIN VehicleBindings ELSE {})

\* those of them it assigns true
PressedActions(ch) ==
    (IF "KeyE" \in ch.keys THEN {"enter"} ELSE {}) \cup
    (IF ch.controlMode = "character"
     THEN {a \in DOMAIN CharacterBindings : CharacterBindings[a] \in ch.keys}
          \cup {a \in DOMAIN MouseBindings : MouseBindings[a] \in ch.mouseButtons}
     ELSE IF ch.controlMode = "vehicle"
     THEN {a \in DOMAIN VehicleBindings : VehicleBindings[a] \in ch.keys}
     ELSE {})

\* Controls.updateActionsFromKeys(): the actions of the other mode are left
\* as they are
UpdateActionsFromKeys(w, c) ==
    [w EXCEPT !.chars[c].actions =
         (@ \ WrittenActions(w.chars[c].controlMode)) \cup PressedActions(w.chars[c])]

\* Controls.onKeyDown(event) and onKeyUp(event)
OnKeyDownF(w, c, code) ==
    UpdateActionsFromKeys([w EXCEPT !.chars[c].keys = @ \cup {code}], c)
OnKeyUpF(w, c, code) ==
    UpdateActionsFromKeys([w EXCEPT !.chars[c].keys = @ \ {code}], c)

\* Controls.onMouseDown(event) and onMouseUp(event)
OnMouseDownF(w, c, button) ==
    UpdateActionsFromKeys([w EXCEPT !.chars[c].mouseButtons = @ \cup {button}], c)
OnMouseUpF(w, c, button) ==
    UpdateActionsFromKeys([w EXCEPT !.chars[c].mouseButtons = @ \ {button}], c)

\* Controls.onWindowBlur()
OnWindowBlurF(w, c) ==
    [w EXCEPT !.chars[c].keys = {}, !.chars[c].mouseButtons = {},
              !.chars[c].actions = {}]

\* a faulty setControlMode: the actions are not reset
SetControlModeKeeping(w, c, mode) ==
    IF mode \in {"character", "vehicle"}
    THEN UpdateActionsFromKeys([w EXCEPT !.chars[c].controlMode = mode], c)
    ELSE w

\* Controls.setControlMode(mode)
SetControlMode(w, c, mode) ==
    IF mode \in {"character", "vehicle"}
    THEN UpdateActionsFromKeys([w EXCEPT !.chars[c].controlMode = mode,
                                         !.chars[c].actions = {}], c)
    ELSE w

\* Player.enterVehicle(vehicle)
EnterVehicleF(w, c, v) ==
    IF w.chars[c].isInVehicle THEN w
    ELSE Bind([w EXCEPT !.chars[c].currentVehicle = v,
                        !.chars[c].isInVehicle = TRUE,
                        !.chars[c].visible = FALSE,
                        !.chars[c].bodyAwake = FALSE], LAMBDA w1 :
         SetDriverF(SetControlMode(w1, c, "vehicle"), v, c))

\* a faulty exitVehicle: currentVehicle is not cleared
ExitVehicleKeeping(w, c) ==
    IF ~w.chars[c].isInVehicle \/ w.chars[c].currentVehicle = Null THEN w
    ELSE Bind([w EXCEPT !.chars[c].position =
                            GetExitPosition(w.vehicles[w.chars[c].currentVehicle]),
                        !.chars[c].visible = TRUE,
                        !.chars[c].bodyAwake = TRUE], LAMBDA w1 :
         Bind(RemoveDriverF(SetControlMode(w1, c, "character"),
                            w1.chars[c].currentVehicle), LAMBDA w2 :
         [w2 EXCEPT !.chars[c].isInVehicle = FALSE]))

\* Player.exitVehicle()
ExitVehicleF(w, c) ==
    IF ~w.chars[c].isInVehicle \/ w.chars[c].currentVehicle = Null THEN w
    ELSE Bind([w EXCEPT !.chars[c].position =
                            GetExitPosition(w.vehicles[w.chars[c].currentVehicle]),
                        !.chars[c].visible = TRUE,
                        !.chars[c].bodyAwake = TRUE], LAMBDA w1 :
         Bind(RemoveDriverF(SetControlMode(w1, c, "character"),
                            w1.chars[c].currentVehicle), LAMBDA w2 :
         [w2 EXCEPT !.chars[c].currentVehicle = Null,
                    !.chars[c].isInVehicle = FALSE]))

\* Player.die()
DieF(w, c) ==
    Bind([w EXCEPT !.chars[c].position = Spawn,
                   !.chars[c].health = MaxHealth], LAMBDA w1 :
    IF w1.chars[c].isInVehicle THEN ExitVehicleF(w1, c) ELSE w1)

\* Player.takeDamage(amount)
TakeDamageF(w, c, amount) ==
    Bind([w EXCEPT !.chars[c].health = Max(0, @ - amount)], LAMBDA w1 :
    IF w1.chars[c].health <= 0 THEN DieF(w1, c) ELSE w1)

\* controls.actions.sprint: Controls reads the sprint key in character
\* mode only, and setControlMode clears every action
SprintAction(w, c, keys) == keys.sprint /\ w.chars[c].controlMode = "character"

\* the length, in tenths, of Controls.getMovementDirection(): the sum of
\* the key directions is normalised, then multiplied by 1.8 under sprint
DirectionLength(keys) ==
    IF ~keys.moving THEN 0 ELSE IF keys.sprint THEN 18 ELSE 10

\* controls.actions.jump and controls.actions.enterVehicle, both read in
\* character mode only
JumpAction(w, c, keys) == keys.jump /\ w.chars[c].controlMode = "character"
EnterVehicleAction(w, c, keys) ==
    keys.enterVehicle /\ w.chars[c].controlMode = "character"

\* the callback of Player.setupCollisionHandling, called with the other
\* body of a contact that begins
CollisionF(w, c, otherBody) ==
    IF otherBody.type = "vehicle"
    THEN IF "enterVehicle" \in w.chars[c].actions
         THEN EnterVehicleF(w, c, otherBody.vehicle) ELSE w
    ELSE IF otherBody.type = "ground"
    THEN [w EXCEPT !.chars[c].isGrounded = TRUE, !.chars[c].isJumping = FALSE]
    ELSE w

\* Player.checkForNearbyVehicles(), with the body that the first ray to hit
\* anything has hit
CheckForNearbyVehicles(w, c, rayHit) ==
    IF rayHit.type = "vehicle" THEN EnterVehicleF(w, c, rayHit.vehicle) ELSE w

\* a faulty jump: isGrounded is not asked for
JumpUngrounded(w, c, keys) ==
    IF JumpAction(w, c, keys)
    THEN [w EXCEPT !.chars[c].velocityY = JumpForce,
                   !.chars[c].isGrounded = FALSE,
                   !.chars[c].isJumping = TRUE]
    ELSE w

\* the jump of Player.updateOnFoot
JumpF(w, c, keys) ==
    IF JumpAction(w, c, keys) /\ w.chars[c].isGrounded
    THEN [w EXCEPT !.chars[c].velocityY = JumpForce,
                   !.chars[c].isGrounded = FALSE,
                   !.chars[c].isJumping = TRUE]
    ELSE w

\* Physics.setVelocity(body, velocity): the whole vector is copied
SetVelocity(w, c) ==
    [w EXCEPT !.chars[c].bodyVelocityY = w.chars[c].velocityY]

\* the start of Player.updateOnFoot(deltaTime): the speed is chosen, the
\* stamina drained and the direction times the speed written to the velocity
WalkF(w, c, keys, dt) ==
    IF SprintAction(w, c, keys) /\ w.chars[c].stamina > 0
    THEN [w EXCEPT !.chars[c].stamina = Max(0, @ - dt * 25),
                   !.chars[c].velocity = DirectionLength(keys) * RunSpeed]
    ELSE [w EXCEPT !.chars[c].velocity = DirectionLength(keys) * WalkSpeed]

\* Player.updateOnFoot(deltaTime)
UpdateOnFootF(w, c, keys, dt) ==
    Bind(SetVelocity(JumpF(WalkF(w, c, keys, dt), c, keys), c), LAMBDA w1 :
    IF EnterVehicleAction(w1, c, keys)
    THEN CheckForNearbyVehicles(w1, c, keys.rayHit) ELSE w1)

\* a faulty regeneration: the stamina comes back under sprint too
RegenerateAlways(w, c, sprint, dt) ==
    [w EXCEPT !.chars[c].stamina = Min(MaxStamina, @ + dt * 15)]

\* the end of Player.update: the stamina comes back when not sprinting
Regenerate(w, c, sprint, dt) ==
    IF ~sprint
    THEN [w EXCEPT !.chars[c].stamina = Min(MaxStamina, @ + dt * 15)]
    ELSE w

\* Player.update(deltaTime) with Player.updateInVehicle: <<state afterwards,
\* whether it threw>>; controls are the vehicle controls of the frame, exit
\* is controls.actions.exitVehicle and keys are the keys read on foot.  The
\* position on foot is that of the physics body, which is not part of this
\* state.
PlayerUpdateF(w, c, controls, exit, keys, dt) ==
    IF w.chars[c].isInVehicle
    THEN IF w.chars[c].currentVehicle # Null
         THEN Bind(ApplyControlsF(w, w.chars[c].currentVehicle, controls), LAMBDA w1 :
              IF exit
              THEN Bind(ExitVehicleF(w1, c), LAMBDA w2 :
                   \* this.currentVehicle.driverPosition reads a property of null
                   IF w2.chars[c].currentVehicle = Null
                   THEN [w |-> w2, threw |-> TRUE]
                   ELSE [w |-> Regenerate([w2 EXCEPT !.chars[c].position = DriverPosition],
                                          c, SprintAction(w2, c, keys), dt),
                         threw |-> FALSE])
              ELSE [w |-> Regenerate([w1 EXCEPT !.chars[c].position = DriverPosition],
                                     c, SprintAction(w1, c, keys), dt),
                    threw |-> FALSE])
         ELSE [w |-> Regenerate(w, c, SprintAction(w, c, keys), dt), threw |-> FALSE]
    ELSE [w |-> Regenerate(UpdateOnFootF(w, c, keys, dt), c,
                           SprintAction(w, c, keys), dt),
          threw |-> FALSE]

\* a faulty destroy: the driver stays in the wreck
DestroyKeepingDriver(w, v) ==
    w

\* Vehicle.destroy()
DestroyF(w, v) ==
    Bind(IF w.vehicles[v].driver # Null
         THEN ExitVehicleF(w, w.vehicles[v].driver)
         ELSE w, LAMBDA w1 :
    [w1 EXCEPT !.vehicles[v].roughness = 10, !.vehicles[v].metalness = 0])

\* Vehicle.applyDamageVisuals()
ApplyDamageVisuals(w, v) ==
    [w EXCEPT !.vehicles[v].roughness = @ + 3, !.vehicles[v].metalness = @ - 2]

\* Vehicle.resetDamageVisuals()
ResetDamageVisuals(w, v) ==
    [w EXCEPT !.vehicles[v].roughness = 3, !.vehicles[v].metalness = 7]

\* a faulty takeDamage: the visuals are applied on every hit below 50
VehicleTakeDamageAgain(w, v, amount) ==
    Bind([w EXCEPT !.vehicles[v].health = Max(0, @ - amount)], LAMBDA w1 :
    Bind(IF w1.vehicles[v].health < 50
         THEN ApplyDamageVisuals([w1 EXCEPT !.vehicles[v].damaged = TRUE], v)
         ELSE w1, LAMBDA w2 :
    IF w2.vehicles[v].health <= 0 THEN DestroyF(w2, v) ELSE w2))

\* Vehicle.takeDamage(amount)
VehicleTakeDamageF(w, v, amount) ==
    Bind([w EXCEPT !.vehicles[v].health = Max(0, @ - amount)], LAMBDA w1 :
    Bind(IF w1.vehicles[v].health < 50 /\ ~w1.vehicles[v].damaged
         THEN ApplyDamageVisuals([w1 EXCEPT !.vehicles[v].damaged = TRUE], v)
         ELSE w1, LAMBDA w2 :
    IF w2.vehicles[v].health <= 0 THEN DestroyF(w2, v) ELSE w2))

\* a faulty repair: the amount asked for is returned
RepairReturningAmount(w, v, amount) ==
    Bind([w EXCEPT !.vehicles[v].health = Min(100, @ + amount)], LAMBDA w1 :
    [w |-> IF w1.vehicles[v].health >= 50 /\ w1.vehicles[v].damaged
           THEN ResetDamageVisuals([w1 EXCEPT !.vehicles[v].damaged = FALSE], v)
           ELSE w1,
     ret |-> amount])

\* Vehicle.repair(amount): <<state afterwards, value returned>>
RepairF(w, v, amount) ==
    Bind([w EXCEPT !.vehicles[v].health = Min(100, @ + amount)], LAMBDA w1 :
    [w |-> IF w1.vehicles[v].health >= 50 /\ w1.vehicles[v].damaged
           THEN ResetDamageVisuals([w1 EXCEPT !.vehicles[v].damaged = FALSE], v)
           ELSE w1,
     ret |-> w1.vehicles[v].health - w.vehicles[v].health])

\* restartGame(): the player is put back and every vehicle loses its driver;
\* the money and the wanted level are set in RestartGame below
RestartGameF(w) ==
    Bind([w EXCEPT !.chars["player"].position = RestartPosition,
                   !.chars["player"].health = MaxHealth,
                   !.chars["player"].stamina = MaxStamina], LAMBDA w1 :
    [w1 EXCEPT !.vehicles = [v \in Vehicles |->
                   IF w1.vehicles[v].driver # Null
                   THEN RemoveDriverF(w1, v).vehicles[v]
                   ELSE w1.vehicles[v]]])

\* Vehicle.dispose(): the bodies and the group are removed and the driver
\* reference is cleared; the driver itself is not told
DisposeF(w, v) ==
    [w EXCEPT !.vehicles[v].driver = Null]

\* whether Controls.getMovementDirection() is not the zero vector
Moving(ch) ==
    \/ ("moveForward" \in ch.actions) # ("moveBackward" \in ch.actions)
    \/ ("moveLeft" \in ch.actions) # ("moveRight" \in ch.actions)

\* what Player.updateOnFoot reads off the Controls object of the character
KeysOfActions(ch, rayHit) ==
    [moving |-> Moving(ch), sprint |-> "sprint" \in ch.actions,
     jump |-> "jump" \in ch.actions,
     enterVehicle |-> "enterVehicle" \in ch.actions, rayHit |-> rayHit]

\* Controls.getVehicleControls(), in third-person view
GetVehicleControls(ch) ==
    [throttle |-> IF "moveForward" \in ch.actions THEN 1 ELSE 0,
     brake |-> IF "moveBackward" \in ch.actions THEN 1 ELSE 0,
     steering |-> IF "moveRight" \in ch.actions THEN 1
                  ELSE IF "moveLeft" \in ch.actions THEN -1 ELSE 0,
     handbrake |-> "handbrake" \in ch.actions]

\* Player.update(deltaTime) of c with the actions of its Controls object
PlayerUpdateOfControls(w, c, rayHit, dt) ==
    PlayerUpdateF(w, c, GetVehicleControls(w.chars[c]),
                  "exitVehicle" \in w.chars[c].actions,
                  KeysOfActions(w.chars[c], rayHit), dt)

\* Physics.update(deltaTime): world.step leaves the body of the player with
\* the vertical velocity the solver has found and calls the collision
\* callback for a contact that begins; the groups follow their bodies
PhysicsUpdateF(w, solved) ==
    CollisionF([w EXCEPT !.chars["player"].bodyVelocityY = solved.velocityY,
                         !.vehicles = [v \in Vehicles |->
                                          [w.vehicles[v] EXCEPT !.pose = solved.pose]]],
               "player", solved.contact)

\* every vehicle.update(delta) of animate, one vehicle after the other
UpdateVehicles(w, dt, speed) ==
    [w EXCEPT !.vehicles = [v \in Vehicles |->
                               VehicleUpdateF(w, v, dt, speed).vehicles[v]]]

\* animate() when the game is not paused: <<state afterwards, the updates
\* that ran in their order, whether player.update threw>>
AnimateF(w, solved, rayHit, dt) ==
    Bind(PlayerUpdateOfControls(PhysicsUpdateF(w, solved), "player", rayHit, dt),
         LAMBDA r :
    IF r.threw
    THEN [w |-> r.w, steps |-> <<"physics", "player">>, threw |-> TRUE]
    ELSE [w |-> UpdateVehicles(r.w, dt, solved.speed),
          steps |-> <<"physics", "player", "vehicles">>, threw |-> FALSE])

\* seconds by which Vehicle.update is advanced and amounts handed to addFuel
MaxFuelDelta == 1
VehicleDeltaTimes == {2000 * k : k \in 1..MaxFuelDelta}
FuelAmounts == {40}

\* seconds by which Player.update is advanced where the stamina is followed
MaxFootDelta == 2
FootDeltaTimes == 1..MaxFootDelta

\* amounts handed to Vehicle.takeDamage and Vehicle.repair where the health
\* is followed in steps of 10, and the amounts Vehicle.takeDamage accepts
HitAmounts == {0, 10, 60}
RepairAmounts == {0, 30}
AnyAmounts == HitAmounts \cup {-50}

\* the missions of the game in which the player is hurt and restarts
LifeMissions == {"escort", "vigil"}

(***************************************************************************)
(* Initial state: the missions created, each with its marker.              *)
(***************************************************************************)
\* the player, the second character and the vehicles as constructed
WorldInit ==
    /\ health = NewPlayer.health
    /\ isInVehicle = NewPlayer.isInVehicle
    /\ currentVehicle = NewPlayer.currentVehicle
    /\ visible = NewPlayer.visible
    /\ bodyAwake = NewPlayer.bodyAwake
    /\ controlMode = NewPlayer.controlMode
    /\ position = NewPlayer.position
    /\ stamina = NewPlayer.stamina
    /\ velocity = NewPlayer.velocity
    /\ velocityY = NewPlayer.velocityY
    /\ bodyVelocityY = NewPlayer.bodyVelocityY
    /\ isGrounded = NewPlayer.isGrounded
    /\ isJumping = NewPlayer.isJumping
    /\ keysDown = NewPlayer.keys
    /\ mouseButtons = NewPlayer.mouseButtons
    /\ actions = NewPlayer.actions
    /\ paused = FALSE
    /\ frameSteps = <<>>
    /\ player2 = NewPlayer
    /\ vehicles = [v \in Vehicles |-> NewVehicle]

Init ==
    /\ status = [m \in Missions |-> "inactive"]
    /\ activeMission = Null
    /\ completedMissions = <<>>
    /\ objCompleted = [m \in Missions |-> [i \in DOMAIN Objectives(m) |-> FALSE]]
    /\ elapsedTime = [m \in Missions |-> 0]
    /\ checkpoints = [m \in Missions |-> <<>>]
    /\ missionMarkers = <<"delivery", "escort">>
    /\ awarded = [m \in Missions |-> 0]
    /\ failReason = [m \in Missions |-> Null]
    /\ money = 1000
    /\ wanted = 0
    /\ weapons = {}
    /\ inventoryItems = {}
    /\ startCount = 0
    /\ outcome = Undefined
    /\ WorldInit


(***************************************************************************)
(* The mission system's operations.                                        *)
(***************************************************************************)
\* MissionSystem.startMission(mission), also reached by startDebugMission
StartMission(m) ==
    /\ activeMission = Null => startCount < MaxStarts
    /\ \E r \in {StartMissionF(MS, m)} :
           /\ Commit(r.s)
           /\ outcome' = Returned("startMission", r.ret)
    /\ UNCHANGED <<worldVars, loopVars>>

\* MissionSystem.completeObjective(objectiveId)
CompleteObjective(id) ==
    /\ \E r \in {CompleteObjectiveF(MS, id)} :
           /\ Commit(r.s)
           /\ outcome' = IF r.threw THEN Threw("completeObjective") ELSE Undefined
    /\ UNCHANGED <<worldVars, loopVars>>

\* Mission.completeObjective(objectiveId), called on the mission itself by
\* the timers its onStart callback sets, which expire seconds after the start
MissionCompleteObjective(m, id) ==
    /\ status[m] = "active"
    /\ \E r \in {MissionCompleteObjectiveF(MS, m, id)} :
           /\ Commit(r.s)
           /\ outcome' = Returned("Mission.completeObjective", r.ret)
    /\ UNCHANGED <<worldVars, loopVars>>

\* MissionSystem.completeMission()
CompleteMission ==
    /\ \E s \in {CompleteMissionF(MS)} : Commit(s)
    /\ outcome' = Undefined
    /\ UNCHANGED <<worldVars, loopVars>>

\* MissionSystem.failMission(reason)
FailMission ==
    /\ \E s \in {FailMissionF(MS, "Aborted")} : Commit(s)
    /\ outcome' = Undefined
    /\ UNCHANGED <<worldVars, loopVars>>

\* MissionSystem.triggerCheckpoint(checkpoint), called as update calls it:
\* with a checkpoint of the active mission
TriggerCheckpoint(m, i) ==
    /\ m = activeMission
    /\ i \in DOMAIN checkpoints[m]
    /\ \E s \in {TriggerCheckpointF(MS, m, i)} : Commit(s)
    /\ outcome' = Undefined
    /\ UNCHANGED <<worldVars, loopVars>>

\* MissionSystem.update(deltaTime); p is player.position in this frame and
\* interact is player.controls.actions.interact
Update(dt, interact, p) ==
    /\ interact => startCount < MaxStarts
    /\ \E r \in {UpdateF(MS, dt, Player(p), interact)} :
           /\ Commit(r.s)
           /\ outcome' = IF r.threw THEN Threw("update") ELSE Undefined
    /\ UNCHANGED <<worldVars, loopVars>>

Next ==
    \/ \E m \in Missions : StartMission(m)
    \/ \E id \in IdInputs : CompleteObjective(id)
    \/ \E m \in Missions : \E id \in IdsOf(m) \cup {"obj_unknown"} :
            MissionCompleteObjective(m, id)
    \/ CompleteMission
    \/ FailMission
    \/ \E m \in Missions, i \in 1..MaxStarts : TriggerCheckpoint(m, i)
    \/ \E dt \in DeltaTimes, p \in PlayerPositions :
            \E interact \in InteractAt(p) : Update(dt, interact, p)

Spec == Init /\ [][Next]_vars

(***************************************************************************)
(* The operations on the characters and the vehicles.                      *)
(***************************************************************************)
\* Player.enterVehicle(vehicle)
EnterVehicle(c, v) ==
    /\ \E w \in {EnterVehicleF(W, c, v)} : CommitW(w)
    /\ outcome' = Undefined
    /\ UNCHANGED <<missionVars, inventoryItems, loopVars>>

\* Player.exitVehicle()
ExitVehicle(c) ==
    /\ \E w \in {ExitVehicleF(W, c)} : CommitW(w)
    /\ outcome' = Undefined
    /\ UNCHANGED <<missionVars, inventoryItems, loopVars>>

\* Player.takeDamage(amount)
TakeDamage(c, amount) ==
    /\ \E w \in {TakeDamageF(W, c, amount)} : CommitW(w)
    /\ outcome' = Undefined
    /\ UNCHANGED <<missionVars, inventoryItems, loopVars>>

\* Player.update(deltaTime), with the keys of the frame
PlayerUpdate(c, controls, exit, keys, dt) ==
    /\ \E r \in {PlayerUpdateF(W, c, controls, exit, keys, dt)} :
           /\ CommitW(r.w)
           /\ outcome' = IF r.threw THEN Threw("Player.update") ELSE Undefined
    /\ UNCHANGED <<missionVars, inventoryItems, loopVars>>

\* Vehicle.takeDamage(amount); the call is recorded as the last one
VehicleTakeDamage(v, amount) ==
    /\ \E w \in {VehicleTakeDamageF(W, v, amount)} : CommitW(w)
    /\ outcome' = [op |-> "Vehicle.takeDamage", ret |-> "undefined"]
    /\ UNCHANGED <<missionVars, inventoryItems, loopVars>>

\* Vehicle.addFuel(amount)
AddFuel(v, amount) ==
    /\ \E w \in {AddFuelF(W, v, amount)} : CommitW(w)
    /\ outcome' = Undefined
    /\ UNCHANGED <<missionVars, inventoryItems, loopVars>>

\* Vehicle.update(deltaTime), with the chassis body at the given speed
VehicleUpdate(v, dt, speed) ==
    /\ \E w \in {VehicleUpdateF(W, v, dt, speed)} : CommitW(w)
    /\ outcome' = Undefined
    /\ UNCHANGED <<missionVars, inventoryItems, loopVars>>

\* Physics.update: the group of a vehicle follows its chassis body
MoveVehicle(v, pose) ==
    /\ vehicles' = [vehicles EXCEPT ![v].pose = pose]
    /\ outcome' = Undefined
    /\ UNCHANGED <<missionVars, playerVars, currentVehicle, visible, bodyAwake,
                   controlMode, position, stamina, velocity, velocityY,
                   bodyVelocityY, isGrounded, isJumping, controlsVars, player2,
                   loopVars>>

\* restartGame()
RestartGame ==
    /\ \E w \in {RestartGameF(W)} : CommitW(w)
    /\ money' = 1000
    /\ wanted' = 0
    /\ outcome' = Undefined
    /\ paused' = FALSE
    /\ UNCHANGED <<status, activeMission, completedMissions, objCompleted,
                   elapsedTime, checkpoints, missionMarkers, awarded, failReason,
                   weapons, startCount, inventoryItems, frameSteps>>

\* the characters and the vehicle on their own; the vehicle is driven
\* straight and is read at a standstill
VehicleNext ==
    \/ \E c \in Players, v \in Vehicles : EnterVehicle(c, v)
    \/ \E c \in Players : ExitVehicle(c)
    \/ \E c \in Players, amount \in DamageAmounts : TakeDamage(c, amount)
    \/ \E c \in Players, controls \in VehicleControls, exit \in BOOLEAN :
            PlayerUpdate(c, controls, exit, Standing, 1)
    \/ \E v \in Vehicles, amount \in DamageAmounts : VehicleTakeDamage(v, amount)
    \/ \E v \in Vehicles, amount \in FuelAmounts : AddFuel(v, amount)
    \/ \E v \in Vehicles, dt \in VehicleDeltaTimes : VehicleUpdate(v, dt, 0)
    \/ \E v \in Vehicles, pose \in Poses : MoveVehicle(v, pose)
    \/ RestartGame

VehicleSpec == Init /\ [][VehicleNext]_vars

\* Vehicle.repair(amount); the call and the value it returned are recorded
Repair(v, amount) ==
    /\ \E r \in {RepairF(W, v, amount)} :
           /\ CommitW(r.w)
           /\ outcome' = [op |-> "Vehicle.repair", ret |-> r.ret]
    /\ UNCHANGED <<missionVars, inventoryItems, loopVars>>

\* a vehicle that is shot at, driven and repaired
DamageNext ==
    \/ \E v \in Vehicles, amount \in HitAmounts : VehicleTakeDamage(v, amount)
    \/ \E v \in Vehicles, amount \in RepairAmounts : Repair(v, amount)
    \/ \E c \in Players, v \in Vehicles : EnterVehicle(c, v)
    \/ \E c \in Players : ExitVehicle(c)

DamageSpec == Init /\ [][DamageNext]_vars

\* the player at the wheel of the car, with every combination of controls
DriveNext ==
    \/ \E v \in Vehicles : EnterVehicle("player", v)
    \/ \E controls \in DriveControls :
            PlayerUpdate("player", controls, FALSE, Standing, 1)
    \/ \E v \in Vehicles, dt \in VehicleDeltaTimes, speed \in Speeds :
            VehicleUpdate(v, dt, speed)
    \/ ExitVehicle("player")

DriveSpec == Init /\ [][DriveNext]_vars

\* the player on foot, walking and sprinting, and at times in the car
FootNext ==
    \/ \E keys \in FootKeys, dt \in FootDeltaTimes :
            \E controls \in VehicleControls :
                PlayerUpdate("player", controls, FALSE, keys, dt)
    \/ \E v \in Vehicles : EnterVehicle("player", v)
    \/ ExitVehicle("player")
    \/ RestartGame

FootSpec == Init /\ [][FootNext]_vars

\* the missions of a game in which the player is hurt, drives and restarts
LifeInit ==
    /\ status = [m \in LifeMissions |-> "inactive"]
    /\ activeMission = Null
    /\ completedMissions = <<>>
    /\ objCompleted = [m \in LifeMissions |-> [i \in DOMAIN Objectives(m) |-> FALSE]]
    /\ elapsedTime = [m \in LifeMissions |-> 0]
    /\ checkpoints = [m \in LifeMissions |-> <<>>]
    /\ missionMarkers = <<"escort", "vigil">>
    /\ awarded = [m \in LifeMissions |-> 0]
    /\ failReason = [m \in LifeMissions |-> Null]
    /\ money = 1000
    /\ wanted = 0
    /\ weapons = {}
    /\ inventoryItems = {}
    /\ startCount = 0
    /\ outcome = Undefined
    /\ WorldInit

LifeNext ==
    \/ \E m \in LifeMissions : StartMission(m)
    \/ \E id \in UNION {IdsOf(m) : m \in LifeMissions} : CompleteObjective(id)
    \/ \E dt \in DeltaTimes, p \in PlayerPositions :
            \E interact \in InteractAt(p) : Update(dt, interact, p)
    \/ \E amount \in DamageAmounts : TakeDamage("player", amount)
    \/ \E v \in Vehicles : EnterVehicle("player", v)
    \/ RestartGame

LifeSpec == LifeInit /\ [][LifeNext]_vars

\* Vehicle.dispose()
Dispose(v) ==
    /\ \E w \in {DisposeF(W, v)} : CommitW(w)
    /\ outcome' = Undefined
    /\ UNCHANGED <<missionVars, inventoryItems, loopVars>>

\* the operations that seat and unseat a driver
SeatNext ==
    \/ \E c \in Players, v \in Vehicles : EnterVehicle(c, v)
    \/ \E c \in Players : ExitVehicle(c)
    \/ \E v \in Vehicles, amount \in DamageAmounts : VehicleTakeDamage(v, amount)
    \/ \E c \in Players, amount \in DamageAmounts : TakeDamage(c, amount)
    \/ \E v \in Vehicles : Dispose(v)
    \/ RestartGame

SeatSpec == Init /\ [][SeatNext]_vars

\* the keys and buttons pressed and the modes asked for where the Controls
\* object is followed
ControlsKeys == {"KeyW", "Space", "ShiftLeft", "KeyF"}
ControlsButtons == {0}
ControlModes == {"character", "vehicle", "flying"}

\* Controls.onKeyDown(event)
OnKeyDown(code) ==
    /\ \E w \in {OnKeyDownF(W, "player", code)} : CommitW(w)
    /\ outcome' = Undefined
    /\ UNCHANGED <<missionVars, inventoryItems, loopVars>>

\* Controls.onKeyUp(event)
OnKeyUp(code) ==
    /\ \E w \in {OnKeyUpF(W, "player", code)} : CommitW(w)
    /\ outcome' = Undefined
    /\ UNCHANGED <<missionVars, inventoryItems, loopVars>>

\* Controls.onMouseDown(event)
OnMouseDown(button) ==
    /\ \E w \in {OnMouseDownF(W, "player", button)} : CommitW(w)
    /\ outcome' = Undefined
    /\ UNCHANGED <<missionVars, inventoryItems, loopVars>>

\* Controls.onMouseUp(event)
OnMouseUp(button) ==
    /\ \E w \in {OnMouseUpF(W, "player", button)} : CommitW(w)
    /\ outcome' = Undefined
    /\ UNCHANGED <<missionVars, inventoryItems, loopVars>>

\* Controls.onWindowBlur()
OnWindowBlur ==
    /\ \E w \in {OnWindowBlurF(W, "player")} : CommitW(w)
    /\ outcome' = Undefined
    /\ UNCHANGED <<missionVars, inventoryItems, loopVars>>

\* Controls.setControlMode(mode), called on the Controls object
CallSetControlMode(mode) ==
    /\ \E w \in {SetControlMode(W, "player", mode)} : CommitW(w)
    /\ outcome' = Undefined
    /\ UNCHANGED <<missionVars, inventoryItems, loopVars>>

\* the Controls object of the player under key, mouse and blur events and
\* changes of mode, those of entering and leaving the car among them
ControlsNext ==
    \/ \E code \in ControlsKeys : OnKeyDown(code)
    \/ \E code \in ControlsKeys : OnKeyUp(code)
    \/ \E button \in ControlsButtons : OnMouseDown(button)
    \/ \E button \in ControlsButtons : OnMouseUp(button)
    \/ OnWindowBlur
    \/ \E mode \in ControlModes : CallSetControlMode(mode)
    \/ \E v \in Vehicles : EnterVehicle("player", v)
    \/ ExitVehicle("player")

ControlsSpec == Init /\ [][ControlsNext]_vars

\* what the solver can make of a frame: the vertical velocity of the body
\* of the player, at rest or falling, the body it begins to touch, and
\* where and how fast the car is
SolverVelocities == {-10, 0}
Solved(contacts) ==
    [velocityY : SolverVelocities, contact : contacts, pose : Poses, speed : {0}]

\* Physics.update(delta)
PhysicsUpdate(solved) ==
    /\ \E w \in {PhysicsUpdateF(W, solved)} : CommitW(w)
    /\ outcome' = Undefined
    /\ UNCHANGED <<missionVars, inventoryItems, loopVars>>

\* player.update(delta), reading the Controls object
PlayerFrame(rayHit, dt) ==
    /\ \E r \in {PlayerUpdateOfControls(W, "player", rayHit, dt)} :
           /\ CommitW(r.w)
           /\ outcome' = IF r.threw THEN Threw("Player.update") ELSE Undefined
    /\ UNCHANGED <<missionVars, inventoryItems, loopVars>>

\* a Player in a world with the ground of createGround, the car and a
\* platform tagged as ground, under the jump and sprint keys
JumpKeys == {"Space", "ShiftLeft"}
JumpContacts == {NoBody, CreateGround, Platform}
JumpNext ==
    \/ \E code \in JumpKeys : OnKeyDown(code)
    \/ \E code \in JumpKeys : OnKeyUp(code)
    \/ \E solved \in Solved(JumpContacts) : PhysicsUpdate(solved)
    \/ PlayerFrame(NoBody, 1)

JumpSpec == Init /\ [][JumpNext]_vars

\* animate(): nothing is updated while the game is paused
Animate(solved, rayHit, dt) ==
    /\ ~paused
    /\ \E r \in {AnimateF(W, solved, rayHit, dt)} :
           /\ CommitW(r.w)
           /\ frameSteps' = r.steps
           /\ outcome' = IF r.threw THEN Threw("animate") ELSE Undefined
    /\ UNCHANGED <<missionVars, inventoryItems, paused>>

\* pauseGame()
PauseGame ==
    /\ paused' = TRUE
    /\ outcome' = Undefined
    /\ UNCHANGED <<missionVars, worldVars, frameSteps>>

\* resumeGame()
ResumeGame ==
    /\ paused' = FALSE
    /\ outcome' = Undefined
    /\ UNCHANGED <<missionVars, worldVars, frameSteps>>

\* the game: its frames, the keys of the player, the pause menu
GameKeys == {"Space", "ShiftLeft", "KeyF"}
GameBodies == {NoBody, CreateGround} \cup {ChassisBody(v) : v \in Vehicles}
GameNext ==
    \/ \E solved \in Solved(GameBodies), rayHit \in GameBodies :
            Animate(solved, rayHit, 1)
    \/ \E code \in GameKeys : OnKeyDown(code)
    \/ \E code \in GameKeys : OnKeyUp(code)
    \/ PauseGame
    \/ ResumeGame
    \/ RestartGame

GameSpec == Init /\ [][GameNext]_vars

(***************************************************************************)
(* Properties of the mission system.                                       *)
(***************************************************************************)
\* whether every objective of m is completed or optional, read off the flags
AllRequiredDone(flags, m) ==
    \A i \in DOMAIN Objectives(m) : flags[m][i] \/ Objectives(m)[i].optional

\* whether the player at p is inside an untriggered checkpoint of mission m
InCheckpointOf(m, p) ==
    \E i \in DOMAIN checkpoints[m] :
        IsPlayerInCheckpoint(checkpoints[m][i], Player(p))

\* C1: at most one mission has status 'active', and a mission has status
\* 'active' exactly when it is the mission system's activeMission
C1_OneActive ==
    /\ Cardinality({m \in Missions : status[m] = "active"}) <= 1
    /\ \A m \in Missions : status[m] = "active" <=> activeMission = m

\* escort is the active mission after delivery was started and has failed
C1_Witness ==
    /\ activeMission = "escort"
    /\ status["delivery"] = "failed"
    /\ elapsedTime["escort"] = 60

\* C2: a mission's status moves only inactive -> active -> completed or
\* failed; completed and failed are terminal, so a mission that has left
\* 'inactive' is never made 'active' again
C2_StatusOnlyForward ==
    [][\A m \in Missions :
          /\ status[m] = "inactive" => status'[m] \in {"inactive", "active"}
          /\ status[m] \in {"completed", "failed"} => status'[m] = status[m]]_vars

\* C3: a mission's rewards are dispatched once when it completes and never
\* more than once in total
C3_RewardsOnce ==
    /\ \A m \in Missions : awarded[m] <= 1
    /\ \A m \in Missions : status[m] = "completed" => awarded[m] = 1

\* C4: startMission called while a mission is active returns false and
\* changes nothing of the mission system or the player
C4_StartWhileActive ==
    [][\A m \in Missions :
          (activeMission # Null /\ StartMission(m))
              => /\ outcome' = Returned("startMission", FALSE)
                 /\ UNCHANGED <<missionVars, playerVars>>]_vars

\* startMission has just been refused while delivery was under way
C4_Witness ==
    /\ outcome = Returned("startMission", FALSE)
    /\ activeMission = "delivery"
    /\ elapsedTime["delivery"] = 60
    /\ objCompleted["delivery"] = <<TRUE, FALSE>>

\* C5: a timed active mission whose elapsed time reaches timeLimit on a tick
\* becomes 'failed' with reason 'Time expired' on that tick, and the rewards
\* of a mission that has failed so are never dispatched
C5_TimeExpired ==
    [][\A m \in Missions :
          /\ (/\ status[m] = "active"
              /\ MissionData(m).timeLimit > 0
              /\ elapsedTime[m] < MissionData(m).timeLimit
              /\ elapsedTime'[m] >= MissionData(m).timeLimit)
                 => /\ status'[m] = "failed"
                    /\ failReason'[m] = "Time expired"
                    /\ awarded'[m] = awarded[m]
          /\ failReason[m] = "Time expired" => awarded'[m] = awarded[m]]_vars

\* C6: in every state and for every id, Mission.completeObjective(id) on an
\* incomplete objective returns true and marks it, after which the same call
\* returns false and changes nothing; on a completed objective or an id that
\* is no objective of the mission it returns false and changes nothing
C6_CompleteObjectiveOnce ==
    \A m \in Missions : \A id \in IdInputs :
        \E r \in {MissionCompleteObjectiveF(MS, m, id)} :
            IF \E i \in DOMAIN Objectives(m) :
                   Objectives(m)[i].id = id /\ ~objCompleted[m][i]
            THEN /\ r.ret = TRUE
                 /\ \A i \in DOMAIN Objectives(m) :
                        r.s.objCompleted[m][i]
                            = (objCompleted[m][i] \/ Objectives(m)[i].id = id)
                 /\ MissionCompleteObjectiveF(r.s, m, id) = [s |-> r.s, ret |-> FALSE]
            ELSE r = [s |-> MS, ret |-> FALSE]

\* the pickup objective of the running delivery is completed and a further
\* Mission.completeObjective call has just returned false
C6_Witness ==
    /\ outcome = Returned("Mission.completeObjective", FALSE)
    /\ status["delivery"] = "active"
    /\ objCompleted["delivery"] = <<TRUE, FALSE>>

\* objective lists of up to this many entries, for isComplete as a function
MaxObjectives == 3

\* every over each list of up to MaxObjectives objectives, with every
\* combination of the completed and optional flags
EveryOnAllFlags ==
    \A n \in 0..MaxObjectives :
        \A opt \in [1..n -> BOOLEAN] : \A done \in [1..n -> BOOLEAN] :
            Every([i \in 1..n |-> [optional |-> opt[i]]], done, 1)
                <=> \A i \in 1..n : done[i] \/ opt[i]

\* C7: isComplete() is true if and only if every objective is completed or
\* marked optional: for every mission in every state, and for every
\* combination of the two flags
C7_IsCompleteIff ==
    /\ \A m \in Missions : IsComplete(MS, m) <=> AllRequiredDone(objCompleted, m)
    /\ EveryOnAllFlags

\* escort with its optional objective never completed and the other two
\* completed: isComplete() is true
C7_Witness ==
    /\ objCompleted["escort"] = <<TRUE, FALSE, TRUE>>
    /\ status["escort"] = "active"
    /\ IsComplete(MS, "escort")

\* C8: no call of MissionSystem.update or MissionSystem.completeObjective
\* ends with an exception
C8_NoException == outcome.ret # "TypeError"

\* what C9 says of the tick update(dt) made from the present state with the
\* player at p, mission m being active: the destination objective is
\* completed, and the mission is completed if every objective is then
\* completed or optional, and active otherwise
EndCheckpointTick(m, p, dt) ==
    \A interact \in InteractAt(p) :
        \E r \in {UpdateF(MS, dt, Player(p), interact)} :
            /\ r.s.objCompleted[m][Destination(m)]
            /\ r.s.status[m] = IF AllRequiredDone(r.s.objCompleted, m)
                               THEN "completed" ELSE "active"

C10_TriggeredOnce ==
    \A m \in Missions : \A i \in DOMAIN checkpoints[m] :
        /\ checkpoints[m][i].calls = IF checkpoints[m][i].triggered THEN 1 ELSE 0
        /\ checkpoints[m][i].triggered
              => /\ TriggerCheckpointF(MS, m, i) = MS
                 /\ \A p \in PlayerPositions :
                        ~IsPlayerInCheckpoint(checkpoints[m][i], Player(p))

\* escort is still active, its end checkpoint triggered, and time has gone
\* by since
C10_Witness ==
    /\ status["escort"] = "active"
    /\ Len(checkpoints["escort"]) = 1
    /\ checkpoints["escort"][1].calls = 1
    /\ elapsedTime["escort"] = 60

\* C13: a startMission that succeeds leaves the mission with elapsedTime 0
\* and every objective incomplete, whatever they were before the call
C13_StartResets ==
    \A m \in Missions :
        \E r \in {StartMissionF(MS, m)} :
            r.ret => /\ r.s.elapsedTime[m] = 0
                     /\ \A i \in DOMAIN Objectives(m) : ~r.s.objCompleted[m][i]
                     /\ r.s.status[m] = "active"

\* escort ran out of time and has just been started again
C13_Witness ==
    /\ outcome = Returned("startMission", TRUE)
    /\ activeMission = "escort"
    /\ failReason["escort"] = "Time expired"
    /\ startCount = 2
    /\ elapsedTime["escort"] = 0
    /\ objCompleted["escort"] = <<FALSE, FALSE, FALSE>>

\* the player c of world w as the mission system reads it at position p
PlayerOf(w, c, p) == [position |-> p, health |-> w.chars[c].health,
                      isInVehicle |-> w.chars[c].isInVehicle,
                      items |-> inventoryItems]

\* C11: when takeDamage brings the player's health to 0 while a mission is
\* active, the next tick of the mission system (one that would otherwise
\* leave the mission active) fails the mission with the reason "You died"
C11_DeathFailsMission ==
    \A m \in DOMAIN status : \A amount \in DamageAmounts :
        activeMission = m /\ health - amount <= 0
        => \E w \in {TakeDamageF(W, "player", amount)} :
           \A dt \in DeltaTimes : \A p \in PlayerPositions :
               UpdateF(MS, dt, Player(p), FALSE).s.status[m] = "active"
               => \E r \in {UpdateF(MS, dt, PlayerOf(w, "player", p), FALSE)} :
                      /\ r.s.status[m] = "failed"
                      /\ r.s.failReason[m] = "You died"

\* C12: in an active mission, a tick that brings the time since the
\* activation to the duration of an incomplete survive objective, without
\* running into the time limit, completes that objective; this holds for
\* missions with and without a time limit
C12_SurviveCompletes ==
    \A m \in DOMAIN status : \A i \in DOMAIN Objectives(m) : \A dt \in DeltaTimes :
        /\ activeMission = m
        /\ Objectives(m)[i].type = "survive"
        /\ ~objCompleted[m][i]
        /\ dt >= Objectives(m)[i].duration
        /\ MissionData(m).timeLimit > 0
              => elapsedTime[m] + dt < MissionData(m).timeLimit
        => \A p \in PlayerPositions :
               UpdateF(MS, dt, Player(p), FALSE).s.objCompleted[m][i]

\* C14: restartGame leaves the mission system reset: no mission is active,
\* no mission is recorded as completed and every mission is inactive
C14_RestartResetsMissions ==
    [][RestartGame => /\ activeMission' = Null
                      /\ completedMissions' = <<>>
                      /\ \A m \in DOMAIN status' : status'[m] = "inactive"]_vars

\* c is on foot in world w
OnFoot(w, c) ==
    /\ ~w.chars[c].isInVehicle
    /\ w.chars[c].currentVehicle = Null
    /\ w.chars[c].controlMode = "character"

\* C15: with a driving v and b on foot, b.enterVehicle(v) changes nothing:
\* the driver of v is still a and b is still on foot
C15_OccupiedEntryNoOp ==
    \A a \in Players, b \in Players, v \in Vehicles :
        /\ a # b
        /\ vehicles[v].driver = a
        /\ W.chars[a].isInVehicle /\ W.chars[a].currentVehicle = v
        /\ OnFoot(W, b)
        => \E w \in {EnterVehicleF(W, b, v)} :
               /\ w.vehicles[v].driver = a
               /\ OnFoot(w, b)

\* C16: in every state, which is to say after every operation of a Player
\* and of a Vehicle, currentVehicle is non-null exactly if isInVehicle
C16_VehicleIffInVehicle ==
    \A c \in Players : W.chars[c].currentVehicle # Null <=> W.chars[c].isInVehicle

\* the player sits in the car, the second character has got out of it
C16_Witness ==
    /\ isInVehicle /\ currentVehicle = "car"
    /\ ~player2.isInVehicle /\ player2.currentVehicle = Null
    /\ player2.position = GetExitPosition(vehicles["car"])

\* C17: exitVehicle called by a character in a vehicle leaves the character
\* on foot, visible, awake and at the exit position of the vehicle, in
\* control mode character, and the vehicle without driver, its engine off
C17_ExitVehicle ==
    \A c \in Players, v \in Vehicles :
        W.chars[c].isInVehicle /\ W.chars[c].currentVehicle = v
        => \E w \in {ExitVehicleF(W, c)} :
               /\ OnFoot(w, c)
               /\ w.chars[c].visible
               /\ w.chars[c].bodyAwake
               /\ w.chars[c].position = GetExitPosition(vehicles[v])
               /\ w.vehicles[v].driver = Null
               /\ ~w.vehicles[v].engineOn

\* the player has left the car after it was driven away with the throttle
\* down: the engine is off again
C17_Witness ==
    /\ ~isInVehicle /\ currentVehicle = Null
    /\ visible /\ bodyAwake /\ controlMode = "character"
    /\ position = <<"exit point", "moved">>
    /\ vehicles["car"].pose = "moved"
    /\ vehicles["car"].fuel < 100
    /\ vehicles["car"].driver = Null
    /\ ~vehicles["car"].engineOn
    /\ ~player2.isInVehicle

\* C18: when takeDamage brings the health of a vehicle with a driver to 0,
\* the driver ends on foot with no vehicle and in control mode character,
\* and the vehicle without driver and with its engine off
C18_DestroyEjectsDriver ==
    \A v \in Vehicles, c \in Players, amount \in DamageAmounts :
        /\ vehicles[v].driver = c
        /\ vehicles[v].health > 0
        /\ vehicles[v].health - amount <= 0
        => \E w \in {VehicleTakeDamageF(W, v, amount)} :
               /\ w.vehicles[v].health = 0
               /\ OnFoot(w, c)
               /\ w.chars[c].position = GetExitPosition(vehicles[v])
               /\ w.vehicles[v].driver = Null
               /\ ~w.vehicles[v].engineOn

\* the car has just been destroyed by a hit and the player stands at its
\* exit point
C18_Witness ==
    /\ outcome = [op |-> "Vehicle.takeDamage", ret |-> "undefined"]
    /\ vehicles["car"].health = 0
    /\ vehicles["car"].driver = Null
    /\ ~vehicles["car"].engineOn
    /\ ~isInVehicle /\ currentVehicle = Null /\ controlMode = "character"
    /\ position = GetExitPosition(vehicles["car"])

\* C19: once the health of a vehicle is 0, no step turns its engine on
C19_WreckStaysOff ==
    [][\A v \in Vehicles :
          vehicles[v].health <= 0 /\ ~vehicles[v].engineOn
          => ~vehicles'[v].engineOn]_vars

\* C20: the engine of a vehicle without fuel is off
C20_NoFuelNoEngine ==
    \A v \in Vehicles : vehicles[v].fuel <= 0 => ~vehicles[v].engineOn

\* C21: once a vehicle is out of fuel with its engine off, the engine stays
\* off for as long as the fuel stays at 0, whatever the driver does
C21_EmptyStaysOff ==
    [][\A v \in Vehicles :
          /\ vehicles[v].fuel <= 0 /\ ~vehicles[v].engineOn
          /\ vehicles'[v].fuel <= 0
          => ~vehicles'[v].engineOn]_vars

\* the fuel, in percent, that dt seconds use up at the throttle of veh:
\* 0.01 * dt + throttle * 0.05 * dt
FuelUse(veh, dt) == (dt * (1 + 5 * veh.throttle)) \div 100

\* C22: Vehicle.update(dt) with the engine on and fuel left lowers the fuel
\* by min(fuel, 0.01 * dt + throttle * 0.05 * dt), which is a strict
\* decrease; with the engine off it leaves the fuel alone; the fuel is
\* never negative
C22_FuelConsumption ==
    \A v \in Vehicles : \A dt \in VehicleDeltaTimes : \A speed \in Speeds :
        \E w \in {VehicleUpdateF(W, v, dt, speed)} :
            /\ vehicles[v].engineOn /\ vehicles[v].fuel > 0
                  => /\ w.vehicles[v].fuel
                          = vehicles[v].fuel - Min(vehicles[v].fuel,
                                                   FuelUse(vehicles[v], dt))
                     /\ w.vehicles[v].fuel < vehicles[v].fuel
            /\ ~vehicles[v].engineOn => w.vehicles[v].fuel = vehicles[v].fuel
            /\ w.vehicles[v].fuel >= 0
            /\ vehicles[v].fuel >= 0

\* the car has idled through two updates and its engine is still on
C22_Witness ==
    /\ vehicles["car"].engineOn
    /\ vehicles["car"].throttle = 0
    /\ vehicles["car"].fuel = 60
    /\ vehicles["car"].driver = "player"

\* C28: a character in a vehicle that gets out and into the same vehicle
\* again is its driver: the vehicle's driver is the character, the
\* character's currentVehicle is the vehicle, isInVehicle holds, the control
\* mode is vehicle and the engine is on
C28_ExitThenEnter ==
    \A c \in Players, v \in Vehicles :
        W.chars[c].isInVehicle /\ W.chars[c].currentVehicle = v
        => \E w \in {EnterVehicleF(ExitVehicleF(W, c), c, v)} :
               /\ w.vehicles[v].driver = c
               /\ w.chars[c].currentVehicle = v
               /\ w.chars[c].isInVehicle
               /\ w.chars[c].controlMode = "vehicle"
               /\ w.vehicles[v].engineOn

\* the player is the driver of the car while standing for the frame at the
\* exit point an earlier exitVehicle put it at
C28_Witness ==
    /\ isInVehicle /\ currentVehicle = "car" /\ controlMode = "vehicle"
    /\ position = GetExitPosition(vehicles["car"])
    /\ vehicles["car"].driver = "player"
    /\ vehicles["car"].engineOn
    /\ ~player2.isInVehicle

\* C23: whatever number is handed to Vehicle.takeDamage, the health of the
\* vehicle lies in 0..100 afterwards
C23_HealthInRange ==
    \A v \in Vehicles : \A amount \in AnyAmounts :
        VehicleTakeDamageF(W, v, amount).vehicles[v].health \in 0..100

\* C24: damaged holds exactly if the health is below 50; a hit that leaves
\* the vehicle alive applies the damage visuals if it takes the health below
\* 50 from 50 or more and changes no visuals otherwise; repair leaves damaged
\* true exactly if the health is still below 50 and resets the visuals
\* when it clears the flag
C24_DamagedFlag ==
    \A v \in Vehicles :
        /\ vehicles[v].damaged <=> vehicles[v].health < 50
        /\ \A amount \in HitAmounts :
               \E w \in {VehicleTakeDamageF(W, v, amount)} :
                   /\ w.vehicles[v].damaged <=> w.vehicles[v].health < 50
                   /\ w.vehicles[v].health > 0
                         => w.vehicles[v].roughness
                              = IF ~vehicles[v].damaged /\ w.vehicles[v].damaged
                                THEN vehicles[v].roughness + 3
                                ELSE vehicles[v].roughness
        /\ \A amount \in RepairAmounts :
               \E r \in {RepairF(W, v, amount)} :
                   /\ r.w.vehicles[v].damaged <=> r.w.vehicles[v].health < 50
                   /\ vehicles[v].damaged /\ ~r.w.vehicles[v].damaged
                         => r.w.vehicles[v].roughness = 3

\* the car has been hit twice below 50 without being destroyed, and its
\* damage visuals have been applied once
C24_Witness ==
    /\ outcome.op = "Vehicle.takeDamage"
    /\ vehicles["car"].health = 30
    /\ vehicles["car"].damaged
    /\ vehicles["car"].roughness = 6
    /\ vehicles["car"].metalness = 5

\* C25: repair(amount) sets the health to min(100, health + amount) and
\* returns the health gained: 30 for repair(30) at health 40, 10 for
\* repair(30) at health 90
C25_RepairReturnsGain ==
    \A v \in Vehicles :
        /\ \A amount \in RepairAmounts :
               \E r \in {RepairF(W, v, amount)} :
                   /\ r.w.vehicles[v].health = Min(100, vehicles[v].health + amount)
                   /\ r.ret = r.w.vehicles[v].health - vehicles[v].health
        /\ vehicles[v].health = 40 => RepairF(W, v, 30).ret = 30
        /\ vehicles[v].health = 90 => RepairF(W, v, 30).ret = 10

\* repair has just returned 10: it was asked for 30 at health 90
C25_Witness ==
    /\ outcome.op = "Vehicle.repair"
    /\ outcome.ret = 10
    /\ vehicles["car"].health = 100

\* C26: applyControls sets the steering of both front wheels to steering *
\* steeringClamp * max(0.5, 1 - speed / maxSpeed); with steering 1 this is
\* 0.5 at speed 0 and 0.25 at speed 150 and above (values in thousandths)
C26_SteeringValue ==
    \A v \in Vehicles : \A controls \in DriveControls :
        \E w \in {ApplyControlsF(W, v, controls)} :
            \A i \in FrontWheels :
                /\ 2 * MaxSpeed * w.vehicles[v].wheels[i].steering
                     = controls.steering * SteeringClamp
                         * Max(MaxSpeed, 2 * (MaxSpeed - vehicles[v].speed))
                /\ controls.steering = 1 /\ vehicles[v].speed = 0
                      => w.vehicles[v].wheels[i].steering = 500
                /\ controls.steering = 1 /\ vehicles[v].speed >= 150
                      => w.vehicles[v].wheels[i].steering = 250

\* the car is steered to the right at twice its maximum speed
C26_Witness ==
    /\ vehicles["car"].speed = 300
    /\ vehicles["car"].wheels[0].steering = 250
    /\ vehicles["car"].wheels[1].steering = 250
    /\ vehicles["car"].driver = "player"

\* C27: applyControls gives the engine force to the rear wheels only and
\* the steering to the front wheels only; every wheel gets the brake force,
\* except that with the handbrake on the rear wheels get twice maxBrake
C27_WheelForces ==
    \A v \in Vehicles : \A controls \in DriveControls :
        \E w \in {ApplyControlsF(W, v, controls)} :
            /\ \A i \in RearWheels :
                   /\ w.vehicles[v].wheels[i].engineForce = controls.throttle * MaxForce
                   /\ w.vehicles[v].wheels[i].steering = vehicles[v].wheels[i].steering
                   /\ w.vehicles[v].wheels[i].brake
                        = IF controls.handbrake THEN 2 * MaxBrake
                          ELSE controls.brake * MaxBrake
            /\ \A i \in FrontWheels :
                   /\ w.vehicles[v].wheels[i].engineForce
                        = vehicles[v].wheels[i].engineForce
                   /\ w.vehicles[v].wheels[i].brake = controls.brake * MaxBrake
            /\ \A i \in FrontWheels \cup RearWheels :
                   vehicles[v].wheels[i].steering # 0 => i \in FrontWheels
            /\ \A i \in FrontWheels \cup RearWheels :
                   vehicles[v].wheels[i].engineForce # 0 => i \in RearWheels

\* the car is driven with throttle, brake and handbrake at once
C27_Witness ==
    /\ vehicles["car"].handbrakeActive
    /\ \A i \in RearWheels : /\ vehicles["car"].wheels[i].engineForce = MaxForce
                              /\ vehicles["car"].wheels[i].brake = 2 * MaxBrake
    /\ \A i \in FrontWheels : /\ vehicles["car"].wheels[i].engineForce = 0
                               /\ vehicles["car"].wheels[i].brake = MaxBrake

\* C29: the stamina lies in 0..100; a tick on foot with the sprint action
\* set and stamina left takes it to max(0, stamina - 25 * dt); a tick raises
\* it only with the sprint action clear, and then to min(100, stamina +
\* 15 * dt); with the sprint action set no tick raises it
C29_Stamina ==
    \A c \in Players :
        /\ W.chars[c].stamina \in 0..MaxStamina
        /\ \A keys \in FootKeys, dt \in FootDeltaTimes, controls \in VehicleControls :
               \E r \in {PlayerUpdateF(W, c, controls, FALSE, keys, dt)} :
                   /\ r.w.chars[c].stamina \in 0..MaxStamina
                   /\ /\ ~W.chars[c].isInVehicle
                      /\ SprintAction(W, c, keys)
                      /\ W.chars[c].stamina > 0
                      => r.w.chars[c].stamina = Max(0, W.chars[c].stamina - 25 * dt)
                   /\ r.w.chars[c].stamina > W.chars[c].stamina
                      => /\ ~SprintAction(W, c, keys)
                         /\ r.w.chars[c].stamina
                              = Min(100, W.chars[c].stamina + 15 * dt)
                   /\ SprintAction(W, c, keys)
                      => r.w.chars[c].stamina <= W.chars[c].stamina

\* the player has sprinted, rested for a second and is walking
C29_Witness ==
    /\ ~isInVehicle
    /\ stamina = 40
    /\ velocity = 10 * WalkSpeed

\* C30: a tick on foot with a movement key down commands the horizontal
\* speed runSpeed if the sprint action is set and stamina is left, and
\* walkSpeed otherwise (velocity is in tenths)
C30_CommandedSpeed ==
    \A c \in Players : \A keys \in FootKeys, dt \in FootDeltaTimes :
        ~W.chars[c].isInVehicle /\ keys.moving
        => \E w \in {UpdateOnFootF(W, c, keys, dt)} :
               w.chars[c].velocity
                 = 10 * (IF SprintAction(W, c, keys) /\ W.chars[c].stamina > 0
                         THEN RunSpeed ELSE WalkSpeed)


(***************************************************************************)
(* Properties of the seat of a vehicle and of the list of completed        *)
(* missions.                                                               *)
(***************************************************************************)
\* C38: after any sequence of enter, exit, destroy, death, dispose and
\* restart operations, the driver of a vehicle is a player exactly when the
\* currentVehicle of that player is that vehicle
C38_DriverIffCurrentVehicle ==
    \A c \in Players, v \in Vehicles :
        vehicles[v].driver = c <=> W.chars[c].currentVehicle = v

\* C39: the list of completed missions holds only missions whose status is
\* 'completed', each at most once, and never a failed mission
C39_CompletedList ==
    /\ \A i \in DOMAIN completedMissions :
           status[completedMissions[i]] = "completed"
    /\ \A i, j \in DOMAIN completedMissions :
           completedMissions[i] = completedMissions[j] => i = j


(***************************************************************************)
(* Properties of the Controls object.                                      *)
(***************************************************************************)
\* C40: after any sequence of key, mouse and blur events and setControlMode
\* calls, exitVehicle and handbrake are false in character mode and
\* enterVehicle, jump and sprint are false in vehicle mode; setControlMode
\* with an unknown mode changes neither the mode nor the actions
C40_ModeExclusiveActions ==
    /\ controlMode = "character" => actions \cap {"exitVehicle", "handbrake"} = {}
    /\ controlMode = "vehicle" => actions \cap {"enterVehicle", "jump", "sprint"} = {}
    /\ \A mode \in ControlModes \ {"character", "vehicle"} :
           \E w \in {SetControlMode(W, "player", mode)} :
               /\ w.chars["player"].controlMode = controlMode
               /\ w.chars["player"].actions = actions

\* the mode was changed to vehicle with Space and F held down, which now
\* assert the handbrake and the exit
C40_Witness ==
    /\ controlMode = "vehicle"
    /\ {"Space", "KeyF"} \subseteq keysDown
    /\ {"handbrake", "exitVehicle"} \subseteq actions


(***************************************************************************)
(* Properties of the jump, of the bodies and of the game loop.             *)
(***************************************************************************)
\* what a frame on foot can read where the jump is followed
JumpInputs == [moving : {FALSE}, sprint : BOOLEAN, jump : BOOLEAN,
               enterVehicle : {FALSE}, rayHit : {NoBody}]

\* C31: the vertical velocity is set to the jump impulse only on a tick on
\* which jump is asserted and isGrounded is true, and that tick sets
\* isGrounded to false; isGrounded becomes true only when a contact begins
\* with a body tagged 'ground'
C31_JumpOnlyWhenGrounded ==
    [][/\ \A ks \in JumpInputs :
             \E w \in {UpdateOnFootF(W, "player", ks, 1)} :
                 IF JumpAction(W, "player", ks) /\ isGrounded
                 THEN /\ w.chars["player"].velocityY = JumpForce
                      /\ ~w.chars["player"].isGrounded
                 ELSE /\ w.chars["player"].velocityY = velocityY
                      /\ w.chars["player"].isGrounded = isGrounded
       /\ (velocityY' # velocityY \/ (isGrounded /\ ~isGrounded')) =>
              /\ "jump" \in actions /\ isGrounded
              /\ velocityY' = JumpForce /\ ~isGrounded'
              /\ PlayerFrame(NoBody, 1)
       /\ (~isGrounded /\ isGrounded') =>
              \E solved \in Solved(JumpContacts) :
                  solved.contact.type = "ground" /\ PhysicsUpdate(solved)]_vars

\* the player has landed on the platform and has jumped off it
C31_Witness ==
    /\ isJumping /\ ~isGrounded
    /\ velocityY = JumpForce /\ bodyVelocityY = JumpForce
    /\ "jump" \in actions

\* C32: a tick on foot without a jump leaves the vertical velocity of the
\* body as the solver produced it
C32_VerticalVelocityKept ==
    \A ks \in JumpInputs :
        (~ks.jump /\ ~isInVehicle) =>
            \E r \in {PlayerUpdateF(W, "player", GetVehicleControls(W.chars["player"]),
                                   FALSE, ks, 1)} :
                r.w.chars["player"].bodyVelocityY = bodyVelocityY

\* C36: a character whose body begins to touch the ground body of
\* Physics.createGround is grounded, and a jump asked for on the next tick
\* takes effect
C36_GroundContactGrounds ==
    \E w \in {PhysicsUpdateF(W, [velocityY |-> 0, contact |-> CreateGround,
                                  pose |-> "parked", speed |-> 0])} :
        /\ w.chars["player"].isGrounded
        /\ (~isInVehicle) =>
               \E w2 \in {UpdateOnFootF(w, "player",
                                         [Standing EXCEPT !.jump = TRUE], 1)} :
                   w2.chars["player"].velocityY = JumpForce

\* C35: a player on foot who asserts enterVehicle with the chassis of a
\* driverless vehicle in reach of the rays, or in contact with it, becomes
\* the driver of that vehicle
C35_ScanFindsVehicle ==
    \A v \in Vehicles :
        (OnFoot(W, "player") /\ vehicles[v].driver = Null) =>
            /\ \E w \in {UpdateOnFootF(W, "player",
                                       [Standing EXCEPT !.enterVehicle = TRUE,
                                                        !.rayHit = ChassisBody(v)], 1)} :
                   /\ w.vehicles[v].driver = "player"
                   /\ w.chars["player"].currentVehicle = v
            /\ ("enterVehicle" \in actions) =>
                   \E w \in {CollisionF(W, "player", ChassisBody(v))} :
                       w.vehicles[v].driver = "player"

\* C33: in every frame the update of the player, which applies the controls
\* to the vehicle, runs before the physics step, and the evaluation of the
\* missions runs after the physics step
C33_FrameOrder ==
    frameSteps # <<>> =>
        /\ \E i, j \in DOMAIN frameSteps :
               i < j /\ frameSteps[i] = "player" /\ frameSteps[j] = "physics"
        /\ \E i, j \in DOMAIN frameSteps :
               i < j /\ frameSteps[i] = "physics" /\ frameSteps[j] = "missions"

\* C34: while the game stays paused nothing of the simulation changes: no
\* frame runs, the characters, the vehicles and the missions stay as they
\* are, and key events do not change the actions of the Controls object
C34_PauseFreezes ==
    [][(paused /\ paused') =>
           UNCHANGED <<missionVars, playerVars, currentVehicle, visible,
                       bodyAwake, controlMode, position, stamina, velocity,
                       velocityY, bodyVelocityY, isGrounded, isJumping, actions,
                       player2, vehicles, frameSteps>>]_vars

\* C37: while the player drives, the position the mission system reads for
\* the player is the world position of the vehicle, so a checkpoint at the
\* place of the vehicle contains the player
C37_DrivingPosition ==
    (isInVehicle /\ currentVehicle # Null) =>
        \A controls \in DriveControls :
            \E r \in {PlayerUpdateF(W, "player", controls, FALSE, Standing, 1)} :
                /\ r.w.chars["player"].position =
                       VehicleGroupPosition(r.w.vehicles[currentVehicle])
                /\ IsPlayerInCheckpoint(
                       Checkpoint(PoseCoordinates(r.w.vehicles[currentVehicle].pose)),
                       [position |->
                            MissionCoordinates(r.w.chars["player"].position)])

====
